---- MODULE Spec2Model ----
(***************************************************************************)
(* ABACUS Task Manager API, src/app/main.py (version 0.2.0).               *)
(*                                                                         *)
(* The process-local maps USERS, TOKENS, TEAMS, TASKS, NOTIFICATIONS,      *)
(* COMMENTS, ATTACHMENTS and REMINDERS are the state; every HTTP handler   *)
(* is one atomic action that takes the request (the Authorization token,   *)
(* the path identifiers, the payload) as parameters and leaves its         *)
(* response in `last`.                                                     *)
(*                                                                         *)
(* Conventions                                                             *)
(*   - Python's None is the empty tuple; a UUID is the tuple <<kind, n>>,  *)
(*     n counting the uuid4() calls made for that kind of object, so that  *)
(*     every generated identifier is fresh and an Optional[UUID] compares  *)
(*     with None.  An Optional[date] is None or <<day>>, day an integer.   *)
(*   - a dict keeps insertion order: values(M) lists a map by ascending    *)
(*     creation counter, which is the order of insertion (re-assigning an  *)
(*     existing key keeps its place).                                      *)
(*   - datetime.utcnow() reads `clock`, date.today() reads `today`; both   *)
(*     belong to the environment, never to a handler (AdvanceDay moves     *)
(*     the date).  No handler branches on a timestamp.                     *)
(*   - the handlers are plain functions, which the framework runs on the   *)
(*     threads of a pool.  Where the order of the requests is all that     *)
(*     matters a handler is one action; `inflight` holds the requests the  *)
(*     worker threads are in the middle of, for the handlers that are      *)
(*     taken step by step (set_status_read, set_status_write, ...).        *)
(*   - full_name, message texts and the users' created_at play no part in  *)
(*     any decision and are left out of the records.                       *)
(***************************************************************************)
EXTENDS Integers, Sequences, FiniteSets, TLC

VARIABLES USERS, TOKENS, TEAMS, TASKS, REMINDERS, NOTIFICATIONS, COMMENTS,
          ATTACHMENTS, uuid, clock, today, last, inflight

vars == <<USERS, TOKENS, TEAMS, TASKS, REMINDERS, NOTIFICATIONS, COMMENTS,
          ATTACHMENTS, uuid, clock, today, last, inflight>>

(***************************************************************************)
(* Bounds of the model.                                                    *)
(***************************************************************************)
\* uuid4() calls allowed for tasks (the seed task is not counted)
MaxTasks == 1
\* uuid4() calls allowed for notifications
MaxNotifs == 3
\* uuid4() calls allowed for teams
MaxTeams == 1
\* days the environment may advance date.today()
MaxDay == 2
\* uuid4() calls allowed for users (the population is not counted)
MaxUsers == 1
\* uuid4() calls allowed for tokens (the population's are not counted)
MaxTokens == 1
\* the last value datetime.utcnow() takes
MaxClock == 4
\* worker threads serving requests at the same time
MaxThreads == 2
\* uuid4() calls allowed for comments, for attachments and for reminders
MaxComments == 1
MaxAttachments == 1
MaxReminders == 1

(***************************************************************************)
(* Values.                                                                 *)
(***************************************************************************)
None == <<>>

Some(x) == <<x>>

Role == {"admin", "manager", "user"}

Priority == {"low", "medium", "high", "critical"}

Status == {"not_started", "in_progress", "completed", "blocked"}

NotificationType == {"TASK_ASSIGNED", "TASK_DUE_SOON", "TASK_OVERDUE", "TASK_UPDATED"}

\* the i-th identifier uuid4() returned for objects of this kind
Id(kind, n) == <<kind, n>>

\* the identifier the next uuid4() call returns for this kind
uuid4(kind) == Id(kind, uuid[kind] + 1)

\* datetime.utcnow()
_now == clock

\* x in s, for a Python list s
InList(x, s) == \E i \in 1..Len(s) : s[i] = x

RECURSIVE SortedKeys(_)
\* the keys of a dict in insertion order
SortedKeys(S) ==
    IF S = {} THEN <<>>
    ELSE LET k == CHOOSE k \in S : \A j \in S : k[2] <= j[2]
         IN  <<k>> \o SortedKeys(S \ {k})

\* list(M.values())
values(M) ==
    LET ks == SortedKeys(DOMAIN M)
    IN  [i \in 1..Len(ks) |-> M[ks[i]]]

\* M.pop(k) / del M[k]
Pop(M, k) == [j \in DOMAIN M \ {k} |-> M[j]]

\* M[k] = v
Put(M, k, v) == [j \in DOMAIN M \cup {k} |-> IF j = k THEN v ELSE M[j]]

\* items[offset : offset + limit]
Slice(items, offset, limit) ==
    LET hi == IF offset + limit < Len(items) THEN offset + limit ELSE Len(items)
    IN  IF offset >= hi THEN <<>> ELSE SubSeq(items, offset + 1, hi)

(***************************************************************************)
(* Seed data and the population.                                           *)
(***************************************************************************)
admin_id == Id("user", 0)

manager_id == Id("user", 1)

user1_id == Id("user", 2)

user2_id == Id("user", 3)

seed_task_id == Id("task", 0)

DevAdminToken == Id("token", 0)

UserOut(id, email, role) == [id |-> id, email |-> email, role |-> role, team_ids |-> <<>>]

\* the token login() issued to a registered user of the population
TokenOf(uid) == Id("token", uid[2])

\* USERS and TOKENS as the module leaves them when it is loaded
SeedUsers == [u \in {admin_id} |-> UserOut(admin_id, "admin@example.com", "admin")]

SeedTokens == [t \in {DevAdminToken} |-> admin_id]

SeedTask ==
    [id |-> seed_task_id, title |-> "Kickoff meeting",
     description |-> Some("Initial project kickoff with stakeholders"),
     priority |-> "high", status |-> "in_progress", progress |-> 25,
     due_date |-> Some(1), assignee_id |-> None, creator_id |-> admin_id,
     team_id |-> None, created_at |-> 0, updated_at |-> 0]

\* the seed state after register() and login() of a manager and two users
Population ==
    [u \in {admin_id, manager_id, user1_id, user2_id} |->
        IF u = admin_id THEN SeedUsers[admin_id]
        ELSE IF u = manager_id THEN UserOut(u, "manager@example.com", "manager")
        ELSE IF u = user1_id THEN UserOut(u, "user1@example.com", "user")
        ELSE UserOut(u, "user2@example.com", "user")]

PopulationTokens == [t \in {TokenOf(u) : u \in DOMAIN Population} |-> Id("user", t[2])]

NoResponse == [op |-> "none", caller |-> None, arg |-> None, code |-> 0, body |-> None]

Threads == 1..MaxThreads

\* a worker thread that serves no request
Free == [pc |-> "free", op |-> "none", caller |-> None, arg |-> None,
         updated |-> None, code |-> 0]

Init ==
    /\ USERS = Population
    /\ TOKENS = PopulationTokens
    /\ TEAMS = <<>>
    /\ TASKS = [t \in {seed_task_id} |-> SeedTask]
    /\ REMINDERS = <<>>
    /\ NOTIFICATIONS = <<>>
    /\ COMMENTS = <<>>
    /\ ATTACHMENTS = <<>>
    /\ uuid = [task |-> 0, notif |-> 0, team |-> 0, user |-> 3, token |-> 3,
               comment |-> 0, attachment |-> 0, reminder |-> 0]
    /\ clock = 0
    /\ today = 0
    /\ last = NoResponse
    /\ inflight = [th \in Threads |-> Free]

(***************************************************************************)
(* Responses.                                                              *)
(***************************************************************************)
maps == <<USERS, TOKENS, TEAMS, TASKS, REMINDERS, NOTIFICATIONS, COMMENTS, ATTACHMENTS>>

env == <<clock, today>>

\* no response is waiting to be collected
Idle == last = NoResponse

\* the handler `op` answers the request it was given: the caller _require_auth
\* resolved (None when it did not), the request's arguments, the HTTP status
\* and the body.  Requests are served one at a time: the response of one is
\* collected (Collect) before the next is served.
Respond(op, caller, arg, code, body) ==
    /\ Idle
    /\ last' = [op |-> op, caller |-> caller, arg |-> arg, code |-> code, body |-> body]
    /\ UNCHANGED inflight

\* raise HTTPException(status_code=code), or a body the framework rejects
\* (422): nothing is written
Raise(op, caller, arg, code) ==
    /\ Respond(op, caller, arg, code, None)
    /\ UNCHANGED <<maps, uuid, env>>

\* the client takes the response
Collect ==
    /\ ~Idle
    /\ last' = NoResponse
    /\ UNCHANGED <<maps, uuid, env, inflight>>

(***************************************************************************)
(* Security and roles.                                                     *)
(***************************************************************************)
\* whether _require_auth raises 401 for this Authorization header, given as
\* None (missing or not "Bearer ...") or as the token it carries
Unauthenticated(Authorization) ==
    \/ Authorization = None
    \/ Authorization \notin DOMAIN TOKENS
    \/ TOKENS[Authorization] \notin DOMAIN USERS

\* the user _require_auth returns
_require_auth(Authorization) == USERS[TOKENS[Authorization]]

\* the caller recorded in a response
CallerOf(Authorization) ==
    IF Unauthenticated(Authorization) THEN None ELSE TOKENS[Authorization]

\* this variant has no exception for admins: the role must be the required one
_require_role_exact(required, current_user) == current_user.role = required

\* this variant takes the roles as ranks: the required role or a lower one
_require_role_or_below(required, current_user) ==
    \/ current_user.role = "admin"
    \/ current_user.role = required
    \/ (required = "admin" /\ current_user.role = "manager")

\* whether the checker of _require_role(required) lets current_user pass
_require_role(required, current_user) ==
    ~(current_user.role # required /\ current_user.role # "admin")

(***************************************************************************)
(* Role-based task visibility.                                             *)
(***************************************************************************)
\* the tasks the team managers' branch keeps: this variant reads member_ids
\* where the code reads manager_ids
visible_to_member(user, items) ==
    LET team_ids == {tid \in DOMAIN TEAMS : InList(user.id, TEAMS[tid].member_ids)}
        sees(t) == \/ t.team_id \in team_ids
                   \/ t.assignee_id = user.id
                   \/ t.creator_id = user.id
    IN  SelectSeq(items, sees)

\* the manager branch of _visible_tasks_for
visible_to_manager(user, items) ==
    LET team_ids == {tid \in DOMAIN TEAMS : InList(user.id, TEAMS[tid].manager_ids)}
        sees(t) == \/ t.team_id \in team_ids
                   \/ t.assignee_id = user.id
                   \/ t.creator_id = user.id
    IN  SelectSeq(items, sees)

\* this variant gives the user branch the manager branch's team rule
visible_to_user_with_teams(user, items) == visible_to_manager(user, items)

\* the user branch of _visible_tasks_for
visible_to_user(user, items) ==
    LET sees(t) == t.assignee_id = user.id \/ t.creator_id = user.id
    IN  SelectSeq(items, sees)

\* this variant has no admin branch: an admin is scoped like a manager
_visible_tasks_for_scoped_admin(user) ==
    LET items == values(TASKS)
    IN  IF user.role \in {"admin", "manager"} THEN visible_to_manager(user, items)
        ELSE visible_to_user(user, items)

_visible_tasks_for(user) ==
    LET items == values(TASKS)
    IN  IF user.role = "admin" THEN items
        ELSE IF user.role = "manager" THEN visible_to_manager(user, items)
        ELSE visible_to_user(user, items)

(***************************************************************************)
(* Auth endpoints, users and roles.                                        *)
(***************************************************************************)
\* UserOut(id=uid, email=..., role=..., team_ids=...) from a UserCreate body
UserFrom(uid, payload) ==
    [id |-> uid, email |-> payload.email, role |-> payload.role,
     team_ids |-> payload.team_ids]

\* POST /auth/register: no authentication, the body names the role
register(payload) ==
    LET uid == uuid4("user")
        user == UserFrom(uid, payload)
    IN  /\ uuid.user < Cardinality(DOMAIN Population) - 1 + MaxUsers
        /\ USERS' = Put(USERS, uid, user)
        /\ uuid' = [uuid EXCEPT !.user = @ + 1]
        /\ Respond("register", None, payload, 200, user)
        /\ UNCHANGED <<TOKENS, TEAMS, TASKS, REMINDERS, NOTIFICATIONS, COMMENTS,
                       ATTACHMENTS, env>>

\* POST /auth/login: the first user of USERS with this email, any password
login(email) ==
    LET has_email(u) == u.email = email
        found == SelectSeq(values(USERS), has_email)
        token == uuid4("token")
    IN  IF found = <<>> THEN Raise("login", None, email, 401)
        ELSE /\ uuid.token < Cardinality(DOMAIN PopulationTokens) - 1 + MaxTokens
             /\ TOKENS' = Put(TOKENS, token, found[1].id)
             /\ uuid' = [uuid EXCEPT !.token = @ + 1]
             /\ Respond("login", None, email, 200, [access_token |-> token])
             /\ UNCHANGED <<USERS, TEAMS, TASKS, REMINDERS, NOTIFICATIONS, COMMENTS,
                            ATTACHMENTS, env>>

\* POST /users
create_user(Authorization, payload) ==
    IF Unauthenticated(Authorization) THEN Raise("create_user", None, payload, 401)
    ELSE LET current_user == _require_auth(Authorization)
             uid == uuid4("user")
             user == UserFrom(uid, payload)
         IN  IF ~_require_role("admin", current_user)
             THEN Raise("create_user", current_user.id, payload, 403)
             ELSE /\ uuid.user < Cardinality(DOMAIN Population) - 1 + MaxUsers
                  /\ USERS' = Put(USERS, uid, user)
                  /\ uuid' = [uuid EXCEPT !.user = @ + 1]
                  /\ Respond("create_user", current_user.id, payload, 201, user)
                  /\ UNCHANGED <<TOKENS, TEAMS, TASKS, REMINDERS, NOTIFICATIONS, COMMENTS,
                                 ATTACHMENTS, env>>

\* PATCH /users/{user_id}
update_user(Authorization, user_id, payload) ==
    LET arg == [user_id |-> user_id, payload |-> payload]
    IN  IF Unauthenticated(Authorization) THEN Raise("update_user", None, arg, 401)
        ELSE LET current_user == _require_auth(Authorization)
             IN  IF ~_require_role("admin", current_user)
                 THEN Raise("update_user", current_user.id, arg, 403)
                 ELSE IF user_id \notin DOMAIN USERS
                 THEN Raise("update_user", current_user.id, arg, 404)
                 ELSE LET updated == UserFrom(user_id, payload)
                      IN  /\ USERS' = Put(USERS, user_id, updated)
                          /\ Respond("update_user", current_user.id, arg, 200, updated)
                          /\ UNCHANGED <<TOKENS, TEAMS, TASKS, REMINDERS, NOTIFICATIONS,
                                         COMMENTS, ATTACHMENTS, uuid, env>>

\* DELETE /users/{user_id}
delete_user(Authorization, user_id) ==
    IF Unauthenticated(Authorization) THEN Raise("delete_user", None, user_id, 401)
    ELSE LET current_user == _require_auth(Authorization)
         IN  IF ~_require_role("admin", current_user)
             THEN Raise("delete_user", current_user.id, user_id, 403)
             ELSE IF user_id \notin DOMAIN USERS
             THEN Raise("delete_user", current_user.id, user_id, 404)
             ELSE /\ USERS' = Pop(USERS, user_id)
                  /\ Respond("delete_user", current_user.id, user_id, 204, None)
                  /\ UNCHANGED <<TOKENS, TEAMS, TASKS, REMINDERS, NOTIFICATIONS, COMMENTS,
                                 ATTACHMENTS, uuid, env>>

\* this variant of the guard lets every authenticated caller write
can_mutate_anyone(current_user, existing) == TRUE

\* this variant of the guard lets only the creator and admins write
can_mutate_owner_or_admin(current_user, existing) ==
    ~(existing.creator_id # current_user.id /\ current_user.role # "admin")

\* the guard replace_task, update_task and delete_task apply before writing
can_mutate(current_user, existing) ==
    ~(existing.creator_id # current_user.id /\ current_user.role \notin {"manager", "admin"})

(***************************************************************************)
(* Notification dispatcher.                                                *)
(***************************************************************************)
\* this variant drops the recipient: every notification is a broadcast
_notify_unaddressed(N, n, ntype, task_id, recipient_id) ==
    LET nid == Id("notif", n + 1)
    IN  Put(N, nid, [id |-> nid, type |-> ntype, task_id |-> task_id,
                     is_read |-> FALSE, created_at |-> _now,
                     recipient_id |-> None])

\* NOTIFICATIONS after _notify(ntype, task_id, message, recipient_id), called
\* on the map N when n notification identifiers have been drawn
_notify(N, n, ntype, task_id, recipient_id) ==
    LET nid == Id("notif", n + 1)
    IN  Put(N, nid, [id |-> nid, type |-> ntype, task_id |-> task_id,
                     is_read |-> FALSE, created_at |-> _now,
                     recipient_id |-> recipient_id])

(***************************************************************************)
(* Tasks: request validation.  The framework validates the body against    *)
(* its model after the dependencies (_require_auth) are resolved and       *)
(* before the handler runs, and answers 422 when the body is invalid.      *)
(* Titles, priorities and statuses of the requests are drawn from their    *)
(* types and progress is any integer; a TaskUpdate is given as the record  *)
(* of the fields it sets, none of title, priority, status and progress     *)
(* being set to an explicit null.                                          *)
(***************************************************************************)
\* this variant has lost the upper limit: Field(0, ge=0)
valid_progress_no_upper(progress) == progress >= 0

\* progress: int = Field(0, ge=0, le=100)
valid_progress(progress) == progress >= 0 /\ progress <= 100

\* whether a body is a TaskCreate
TaskCreate_valid(payload) == valid_progress(payload.progress)

\* whether a body, given as the record of the fields it sets, is a TaskUpdate
TaskUpdate_valid(payload) ==
    "progress" \in DOMAIN payload => valid_progress(payload.progress)

\* whether a body is a ProgressUpdate
ProgressUpdate_valid(progress) == valid_progress(progress)

(***************************************************************************)
(* Tasks: CRUD.                                                            *)
(***************************************************************************)
\* TaskOut(id=..., created_at=..., updated_at=..., creator_id=..., **payload.model_dump())
TaskOut(id, created_at, updated_at, creator_id, payload) ==
    [id |-> id, title |-> payload.title, description |-> payload.description,
     priority |-> payload.priority, status |-> payload.status,
     progress |-> payload.progress, due_date |-> payload.due_date,
     assignee_id |-> payload.assignee_id, team_id |-> payload.team_id,
     creator_id |-> creator_id, created_at |-> created_at, updated_at |-> updated_at]

\* GET /tasks
list_tasks(Authorization, limit, offset) ==
    LET arg == [limit |-> limit, offset |-> offset]
    IN  IF Unauthenticated(Authorization) THEN Raise("list_tasks", None, arg, 401)
        ELSE LET current_user == _require_auth(Authorization)
                 items == _visible_tasks_for(current_user)
             IN  /\ Respond("list_tasks", current_user.id, arg, 200,
                                     Slice(items, offset, limit))
                 /\ UNCHANGED <<maps, uuid, env>>

\* POST /tasks
create_task(Authorization, payload) ==
    IF Unauthenticated(Authorization) THEN Raise("create_task", None, payload, 401)
    ELSE IF ~TaskCreate_valid(payload)
    THEN Raise("create_task", CallerOf(Authorization), payload, 422)
    ELSE LET current_user == _require_auth(Authorization)
             task_id == uuid4("task")
             now == _now
             task == TaskOut(task_id, now, now, current_user.id, payload)
             assigned == task.assignee_id # None
         IN  /\ uuid.task < MaxTasks
             /\ assigned => uuid.notif < MaxNotifs
             /\ TASKS' = Put(TASKS, task_id, task)
             /\ NOTIFICATIONS' =
                    IF assigned
                    THEN _notify(NOTIFICATIONS, uuid.notif, "TASK_ASSIGNED", task_id,
                                 task.assignee_id)
                    ELSE NOTIFICATIONS
             /\ uuid' = [uuid EXCEPT !.task = @ + 1,
                                     !.notif = IF assigned THEN @ + 1 ELSE @]
             /\ Respond("create_task", current_user.id, payload, 201, task)
             /\ UNCHANGED <<USERS, TOKENS, TEAMS, REMINDERS, COMMENTS, ATTACHMENTS, env>>

\* this variant returns every existing task: the visibility check is missing
get_task_unscoped(Authorization, task_id) ==
    IF Unauthenticated(Authorization) THEN Raise("get_task", None, task_id, 401)
    ELSE LET current_user == _require_auth(Authorization)
         IN  IF task_id \notin DOMAIN TASKS
             THEN Raise("get_task", current_user.id, task_id, 404)
             ELSE /\ Respond("get_task", current_user.id, task_id, 200, TASKS[task_id])
                  /\ UNCHANGED <<maps, uuid, env>>

\* GET /tasks/{task_id}
get_task(Authorization, task_id) ==
    IF Unauthenticated(Authorization) THEN Raise("get_task", None, task_id, 401)
    ELSE LET current_user == _require_auth(Authorization)
         IN  IF task_id \notin DOMAIN TASKS
             THEN Raise("get_task", current_user.id, task_id, 404)
             ELSE IF ~InList(TASKS[task_id], _visible_tasks_for(current_user))
             THEN Raise("get_task", current_user.id, task_id, 403)
             ELSE /\ Respond("get_task", current_user.id, task_id, 200,
                                      TASKS[task_id])
                  /\ UNCHANGED <<maps, uuid, env>>

\* this variant has lost the line data["updated_at"] = _now()
Patched_keeping_time(existing, fields, now) ==
    [f \in DOMAIN existing |->
        IF f \in DOMAIN fields THEN fields[f] ELSE existing[f]]

\* data = existing.model_dump(); data[k] = v for the fields the payload sets;
\* data["updated_at"] = now; TaskOut(**data)
Patched(existing, fields, now) ==
    [f \in DOMAIN existing |->
        IF f = "updated_at" THEN now
        ELSE IF f \in DOMAIN fields THEN fields[f]
        ELSE existing[f]]

\* this variant builds the replacement as create_task builds a task: created
\* now, by the caller
replace_task_as_new(Authorization, task_id, payload) ==
    LET arg == [task_id |-> task_id, payload |-> payload]
    IN  IF Unauthenticated(Authorization) THEN Raise("replace_task", None, arg, 401)
        ELSE IF ~TaskCreate_valid(payload)
        THEN Raise("replace_task", CallerOf(Authorization), arg, 422)
        ELSE LET current_user == _require_auth(Authorization)
             IN  IF task_id \notin DOMAIN TASKS
                 THEN Raise("replace_task", current_user.id, arg, 404)
                 ELSE IF ~can_mutate(current_user, TASKS[task_id])
                 THEN Raise("replace_task", current_user.id, arg, 403)
                 ELSE LET updated == TaskOut(task_id, _now, _now, current_user.id, payload)
                      IN  /\ uuid.notif < MaxNotifs
                          /\ TASKS' = Put(TASKS, task_id, updated)
                          /\ NOTIFICATIONS' = _notify(NOTIFICATIONS, uuid.notif,
                                                      "TASK_UPDATED", task_id, None)
                          /\ uuid' = [uuid EXCEPT !.notif = @ + 1]
                          /\ Respond("replace_task", current_user.id, arg, 200, updated)
                          /\ UNCHANGED <<USERS, TOKENS, TEAMS, REMINDERS, COMMENTS,
                                         ATTACHMENTS, env>>

\* PUT /tasks/{task_id}
replace_task(Authorization, task_id, payload) ==
    LET arg == [task_id |-> task_id, payload |-> payload]
    IN  IF Unauthenticated(Authorization) THEN Raise("replace_task", None, arg, 401)
        ELSE IF ~TaskCreate_valid(payload)
        THEN Raise("replace_task", CallerOf(Authorization), arg, 422)
        ELSE LET current_user == _require_auth(Authorization)
             IN  IF task_id \notin DOMAIN TASKS
                 THEN Raise("replace_task", current_user.id, arg, 404)
                 ELSE IF ~can_mutate(current_user, TASKS[task_id])
                 THEN Raise("replace_task", current_user.id, arg, 403)
                 ELSE LET existing == TASKS[task_id]
                          updated == TaskOut(task_id, existing.created_at, _now,
                                             existing.creator_id, payload)
                      IN  /\ uuid.notif < MaxNotifs
                          /\ TASKS' = Put(TASKS, task_id, updated)
                          /\ NOTIFICATIONS' = _notify(NOTIFICATIONS, uuid.notif,
                                                      "TASK_UPDATED", task_id, None)
                          /\ uuid' = [uuid EXCEPT !.notif = @ + 1]
                          /\ Respond("replace_task", current_user.id, arg, 200, updated)
                          /\ UNCHANGED <<USERS, TOKENS, TEAMS, REMINDERS, COMMENTS,
                                         ATTACHMENTS, env>>

\* this variant tells a newly set assignee: TASK_ASSIGNED to them instead of
\* the broadcast
update_task_telling_assignee(Authorization, task_id, payload) ==
    LET arg == [task_id |-> task_id, payload |-> payload]
    IN  IF Unauthenticated(Authorization) THEN Raise("update_task", None, arg, 401)
        ELSE IF ~TaskUpdate_valid(payload)
        THEN Raise("update_task", CallerOf(Authorization), arg, 422)
        ELSE LET current_user == _require_auth(Authorization)
             IN  IF task_id \notin DOMAIN TASKS
                 THEN Raise("update_task", current_user.id, arg, 404)
                 ELSE IF ~can_mutate(current_user, TASKS[task_id])
                 THEN Raise("update_task", current_user.id, arg, 403)
                 ELSE LET updated == Patched(TASKS[task_id], payload, _now)
                          told == "assignee_id" \in DOMAIN payload
                                  /\ updated.assignee_id # None
                      IN  /\ uuid.notif < MaxNotifs
                          /\ TASKS' = Put(TASKS, task_id, updated)
                          /\ NOTIFICATIONS' =
                                 IF told
                                 THEN _notify(NOTIFICATIONS, uuid.notif, "TASK_ASSIGNED",
                                              task_id, updated.assignee_id)
                                 ELSE _notify(NOTIFICATIONS, uuid.notif, "TASK_UPDATED",
                                              task_id, None)
                          /\ uuid' = [uuid EXCEPT !.notif = @ + 1]
                          /\ Respond("update_task", current_user.id, arg, 200, updated)
                          /\ UNCHANGED <<USERS, TOKENS, TEAMS, REMINDERS, COMMENTS,
                                         ATTACHMENTS, env>>

\* this variant notifies before it tests the caller: an update that is
\* refused as forbidden has already told everyone
update_task_notifying_first(Authorization, task_id, payload) ==
    LET arg == [task_id |-> task_id, payload |-> payload]
    IN  IF Unauthenticated(Authorization) THEN Raise("update_task", None, arg, 401)
        ELSE IF ~TaskUpdate_valid(payload)
        THEN Raise("update_task", CallerOf(Authorization), arg, 422)
        ELSE LET current_user == _require_auth(Authorization)
             IN  IF task_id \notin DOMAIN TASKS
                 THEN Raise("update_task", current_user.id, arg, 404)
                 ELSE LET updated == Patched(TASKS[task_id], payload, _now)
                          allowed == can_mutate(current_user, TASKS[task_id])
                      IN  /\ uuid.notif < MaxNotifs
                          /\ TASKS' = IF allowed THEN Put(TASKS, task_id, updated) ELSE TASKS
                          /\ NOTIFICATIONS' = _notify(NOTIFICATIONS, uuid.notif,
                                                      "TASK_UPDATED", task_id, None)
                          /\ uuid' = [uuid EXCEPT !.notif = @ + 1]
                          /\ IF allowed
                             THEN Respond("update_task", current_user.id, arg, 200, updated)
                             ELSE Respond("update_task", current_user.id, arg, 403, None)
                          /\ UNCHANGED <<USERS, TOKENS, TEAMS, REMINDERS, COMMENTS,
                                         ATTACHMENTS, env>>

\* PATCH /tasks/{task_id}
update_task(Authorization, task_id, payload) ==
    LET arg == [task_id |-> task_id, payload |-> payload]
    IN  IF Unauthenticated(Authorization) THEN Raise("update_task", None, arg, 401)
        ELSE IF ~TaskUpdate_valid(payload)
        THEN Raise("update_task", CallerOf(Authorization), arg, 422)
        ELSE LET current_user == _require_auth(Authorization)
             IN  IF task_id \notin DOMAIN TASKS
                 THEN Raise("update_task", current_user.id, arg, 404)
                 ELSE IF ~can_mutate(current_user, TASKS[task_id])
                 THEN Raise("update_task", current_user.id, arg, 403)
                 ELSE LET updated == Patched(TASKS[task_id], payload, _now)
                      IN  /\ uuid.notif < MaxNotifs
                          /\ TASKS' = Put(TASKS, task_id, updated)
                          /\ NOTIFICATIONS' = _notify(NOTIFICATIONS, uuid.notif,
                                                      "TASK_UPDATED", task_id, None)
                          /\ uuid' = [uuid EXCEPT !.notif = @ + 1]
                          /\ Respond("update_task", current_user.id, arg, 200, updated)
                          /\ UNCHANGED <<USERS, TOKENS, TEAMS, REMINDERS, COMMENTS,
                                         ATTACHMENTS, env>>

\* this variant cascades: the comments, attachments and reminders of the
\* task go with it
delete_task_cascading(Authorization, task_id) ==
    IF Unauthenticated(Authorization) THEN Raise("delete_task", None, task_id, 401)
    ELSE LET current_user == _require_auth(Authorization)
             others(M) == [k \in {j \in DOMAIN M : M[j].task_id # task_id} |-> M[k]]
         IN  IF task_id \notin DOMAIN TASKS
             THEN Raise("delete_task", current_user.id, task_id, 404)
             ELSE IF ~can_mutate(current_user, TASKS[task_id])
             THEN Raise("delete_task", current_user.id, task_id, 403)
             ELSE /\ TASKS' = Pop(TASKS, task_id)
                  /\ COMMENTS' = others(COMMENTS)
                  /\ ATTACHMENTS' = others(ATTACHMENTS)
                  /\ REMINDERS' = others(REMINDERS)
                  /\ Respond("delete_task", current_user.id, task_id, 204, None)
                  /\ UNCHANGED <<USERS, TOKENS, TEAMS, NOTIFICATIONS, uuid, env>>

\* DELETE /tasks/{task_id}
delete_task(Authorization, task_id) ==
    IF Unauthenticated(Authorization) THEN Raise("delete_task", None, task_id, 401)
    ELSE LET current_user == _require_auth(Authorization)
         IN  IF task_id \notin DOMAIN TASKS
             THEN Raise("delete_task", current_user.id, task_id, 404)
             ELSE IF ~can_mutate(current_user, TASKS[task_id])
             THEN Raise("delete_task", current_user.id, task_id, 403)
             ELSE /\ TASKS' = Pop(TASKS, task_id)
                  /\ Respond("delete_task", current_user.id, task_id, 204, None)
                  /\ UNCHANGED <<USERS, TOKENS, TEAMS, REMINDERS, NOTIFICATIONS, COMMENTS,
                                 ATTACHMENTS, uuid, env>>

(***************************************************************************)
(* Tasks: convenience endpoints.                                           *)
(***************************************************************************)
\* PATCH /tasks/{task_id}/status
set_status(Authorization, task_id, status) ==
    LET arg == [task_id |-> task_id, status |-> status]
    IN  IF Unauthenticated(Authorization) THEN Raise("set_status", None, arg, 401)
        ELSE LET current_user == _require_auth(Authorization)
             IN  IF task_id \notin DOMAIN TASKS
                 THEN Raise("set_status", current_user.id, arg, 404)
                 ELSE LET updated == Patched(TASKS[task_id], [status |-> status], _now)
                      IN  /\ uuid.notif < MaxNotifs
                          /\ TASKS' = Put(TASKS, task_id, updated)
                          /\ NOTIFICATIONS' = _notify(NOTIFICATIONS, uuid.notif,
                                                      "TASK_UPDATED", task_id, None)
                          /\ uuid' = [uuid EXCEPT !.notif = @ + 1]
                          /\ Respond("set_status", current_user.id, arg, 200, updated)
                          /\ UNCHANGED <<USERS, TOKENS, TEAMS, REMINDERS, COMMENTS,
                                         ATTACHMENTS, env>>
\* this variant tells everyone of the new progress, as set_status does of
\* the new status
set_progress_notifying(Authorization, task_id, progress) ==
    LET arg == [task_id |-> task_id, progress |-> progress]
    IN  IF Unauthenticated(Authorization) THEN Raise("set_progress", None, arg, 401)
        ELSE IF ~ProgressUpdate_valid(progress)
        THEN Raise("set_progress", CallerOf(Authorization), arg, 422)
        ELSE LET current_user == _require_auth(Authorization)
             IN  IF task_id \notin DOMAIN TASKS
                 THEN Raise("set_progress", current_user.id, arg, 404)
                 ELSE LET updated == Patched(TASKS[task_id], [progress |-> progress], _now)
                      IN  /\ uuid.notif < MaxNotifs
                          /\ TASKS' = Put(TASKS, task_id, updated)
                          /\ NOTIFICATIONS' = _notify(NOTIFICATIONS, uuid.notif,
                                                      "TASK_UPDATED", task_id, None)
                          /\ uuid' = [uuid EXCEPT !.notif = @ + 1]
                          /\ Respond("set_progress", current_user.id, arg, 200, updated)
                          /\ UNCHANGED <<USERS, TOKENS, TEAMS, REMINDERS,
                                         COMMENTS, ATTACHMENTS, env>>

\* PATCH /tasks/{task_id}/progress
set_progress(Authorization, task_id, progress) ==
    LET arg == [task_id |-> task_id, progress |-> progress]
    IN  IF Unauthenticated(Authorization) THEN Raise("set_progress", None, arg, 401)
        ELSE IF ~ProgressUpdate_valid(progress)
        THEN Raise("set_progress", CallerOf(Authorization), arg, 422)
        ELSE LET current_user == _require_auth(Authorization)
             IN  IF task_id \notin DOMAIN TASKS
                 THEN Raise("set_progress", current_user.id, arg, 404)
                 ELSE LET updated == Patched(TASKS[task_id], [progress |-> progress], _now)
                      IN  /\ TASKS' = Put(TASKS, task_id, updated)
                          /\ Respond("set_progress", current_user.id, arg, 200, updated)
                          /\ UNCHANGED <<USERS, TOKENS, TEAMS, REMINDERS, NOTIFICATIONS,
                                         COMMENTS, ATTACHMENTS, uuid, env>>

\* this variant tests the assignee the task had, not the one it is given
set_assignee_testing_previous(Authorization, task_id, assignee_id) ==
    LET arg == [task_id |-> task_id, assignee_id |-> assignee_id]
    IN  IF Unauthenticated(Authorization) THEN Raise("set_assignee", None, arg, 401)
        ELSE LET current_user == _require_auth(Authorization)
             IN  IF task_id \notin DOMAIN TASKS
                 THEN Raise("set_assignee", current_user.id, arg, 404)
                 ELSE LET updated == Patched(TASKS[task_id], [assignee_id |-> assignee_id], _now)
                          assigned == TASKS[task_id].assignee_id # None
                      IN  /\ assigned => uuid.notif < MaxNotifs
                          /\ TASKS' = Put(TASKS, task_id, updated)
                          /\ NOTIFICATIONS' =
                                 IF assigned
                                 THEN _notify(NOTIFICATIONS, uuid.notif, "TASK_ASSIGNED",
                                              task_id, assignee_id)
                                 ELSE NOTIFICATIONS
                          /\ uuid' = [uuid EXCEPT !.notif = IF assigned THEN @ + 1 ELSE @]
                          /\ Respond("set_assignee", current_user.id, arg, 200, updated)
                          /\ UNCHANGED <<USERS, TOKENS, TEAMS, REMINDERS, COMMENTS,
                                         ATTACHMENTS, env>>

\* PATCH /tasks/{task_id}/assignee
set_assignee(Authorization, task_id, assignee_id) ==
    LET arg == [task_id |-> task_id, assignee_id |-> assignee_id]
    IN  IF Unauthenticated(Authorization) THEN Raise("set_assignee", None, arg, 401)
        ELSE LET current_user == _require_auth(Authorization)
             IN  IF task_id \notin DOMAIN TASKS
                 THEN Raise("set_assignee", current_user.id, arg, 404)
                 ELSE LET updated == Patched(TASKS[task_id], [assignee_id |-> assignee_id], _now)
                          assigned == assignee_id # None
                      IN  /\ assigned => uuid.notif < MaxNotifs
                          /\ TASKS' = Put(TASKS, task_id, updated)
                          /\ NOTIFICATIONS' =
                                 IF assigned
                                 THEN _notify(NOTIFICATIONS, uuid.notif, "TASK_ASSIGNED",
                                              task_id, assignee_id)
                                 ELSE NOTIFICATIONS
                          /\ uuid' = [uuid EXCEPT !.notif = IF assigned THEN @ + 1 ELSE @]
                          /\ Respond("set_assignee", current_user.id, arg, 200, updated)
                          /\ UNCHANGED <<USERS, TOKENS, TEAMS, REMINDERS, COMMENTS,
                                         ATTACHMENTS, env>>

(***************************************************************************)
(* Tasks: set_status and set_progress step by step, on a worker thread.    *)
(* A handler reads TASKS (TASKS.get), builds the new task from what it     *)
(* read (model_dump, then TaskOut of it) and then writes it back           *)
(* (TASKS[task_id] = updated); no lock is held in between, so the steps of *)
(* two threads interleave.                                                 *)
(***************************************************************************)
\* the thread ends its request with this status
Answered(op, caller, arg, code, updated) ==
    [pc |-> "answered", op |-> op, caller |-> caller, arg |-> arg,
     updated |-> updated, code |-> code]

\* set_status up to existing = TASKS.get(task_id) and updated = TaskOut(**data)
set_status_read(th, Authorization, task_id, status) ==
    LET arg == [task_id |-> task_id, status |-> status]
        caller == CallerOf(Authorization)
    IN  /\ inflight[th].pc = "free"
        /\ inflight' = [inflight EXCEPT ![th] =
              IF Unauthenticated(Authorization)
              THEN Answered("set_status", None, arg, 401, None)
              ELSE IF task_id \notin DOMAIN TASKS
              THEN Answered("set_status", caller, arg, 404, None)
              ELSE [pc |-> "write", op |-> "set_status", caller |-> caller, arg |-> arg,
                    updated |-> Patched(TASKS[task_id], [status |-> status], _now),
                    code |-> 0]]
        /\ UNCHANGED <<maps, uuid, env, last>>

\* set_status: TASKS[task_id] = updated
set_status_write(th) ==
    /\ inflight[th].pc = "write" /\ inflight[th].op = "set_status"
    /\ TASKS' = Put(TASKS, inflight[th].arg.task_id, inflight[th].updated)
    /\ inflight' = [inflight EXCEPT ![th].pc = "notify"]
    /\ UNCHANGED <<USERS, TOKENS, TEAMS, REMINDERS, NOTIFICATIONS, COMMENTS, ATTACHMENTS,
                   uuid, env, last>>

\* set_status: _notify("TASK_UPDATED", task_id, ...); return updated
set_status_notify(th) ==
    /\ inflight[th].pc = "notify"
    /\ uuid.notif < MaxNotifs
    /\ NOTIFICATIONS' = _notify(NOTIFICATIONS, uuid.notif, "TASK_UPDATED",
                                inflight[th].arg.task_id, None)
    /\ uuid' = [uuid EXCEPT !.notif = @ + 1]
    /\ inflight' = [inflight EXCEPT ![th].pc = "answered", ![th].code = 200]
    /\ UNCHANGED <<USERS, TOKENS, TEAMS, TASKS, REMINDERS, COMMENTS, ATTACHMENTS,
                   env, last>>

\* set_progress up to existing = TASKS.get(task_id) and updated = TaskOut(**data)
set_progress_read(th, Authorization, task_id, progress) ==
    LET arg == [task_id |-> task_id, progress |-> progress]
        caller == CallerOf(Authorization)
    IN  /\ inflight[th].pc = "free"
        /\ inflight' = [inflight EXCEPT ![th] =
              IF Unauthenticated(Authorization)
              THEN Answered("set_progress", None, arg, 401, None)
              ELSE IF ~ProgressUpdate_valid(progress)
              THEN Answered("set_progress", caller, arg, 422, None)
              ELSE IF task_id \notin DOMAIN TASKS
              THEN Answered("set_progress", caller, arg, 404, None)
              ELSE [pc |-> "write", op |-> "set_progress", caller |-> caller, arg |-> arg,
                    updated |-> Patched(TASKS[task_id], [progress |-> progress], _now),
                    code |-> 0]]
        /\ UNCHANGED <<maps, uuid, env, last>>

\* set_progress: TASKS[task_id] = updated; return updated
set_progress_write(th) ==
    /\ inflight[th].pc = "write" /\ inflight[th].op = "set_progress"
    /\ TASKS' = Put(TASKS, inflight[th].arg.task_id, inflight[th].updated)
    /\ inflight' = [inflight EXCEPT ![th].pc = "answered", ![th].code = 200]
    /\ UNCHANGED <<USERS, TOKENS, TEAMS, REMINDERS, NOTIFICATIONS, COMMENTS, ATTACHMENTS,
                   uuid, env, last>>

\* the response is sent and the thread goes back to the pool
thread_returns(th) ==
    /\ inflight[th].pc = "answered"
    /\ inflight' = [inflight EXCEPT ![th] = Free]
    /\ UNCHANGED <<maps, uuid, env, last>>

(***************************************************************************)
(* Tasks: bulk operations.                                                 *)
(***************************************************************************)
\* POST /tasks/bulk/status
bulk_set_status(Authorization, task_ids, status) ==
    LET arg == [task_ids |-> task_ids, status |-> status]
    IN  IF Unauthenticated(Authorization) THEN Raise("bulk_set_status", None, arg, 401)
        ELSE LET current_user == _require_auth(Authorization)
                 present(tid) == tid \in DOMAIN TASKS
                 found == SelectSeq(task_ids, present)
                 updated_task(tid) == Patched(TASKS[tid], [status |-> status], _now)
             IN  /\ TASKS' = [tid \in DOMAIN TASKS |->
                                IF InList(tid, task_ids) THEN updated_task(tid) ELSE TASKS[tid]]
                 /\ Respond("bulk_set_status", current_user.id, arg, 200,
                                     [i \in 1..Len(found) |-> updated_task(found[i])])
                 /\ UNCHANGED <<USERS, TOKENS, TEAMS, REMINDERS, NOTIFICATIONS, COMMENTS,
                                ATTACHMENTS, uuid, env>>

\* POST /tasks/bulk/delete
bulk_delete(Authorization, task_ids) ==
    IF Unauthenticated(Authorization) THEN Raise("bulk_delete", None, task_ids, 401)
    ELSE LET current_user == _require_auth(Authorization)
         IN  /\ TASKS' = [tid \in {t \in DOMAIN TASKS : ~InList(t, task_ids)} |-> TASKS[tid]]
             /\ Respond("bulk_delete", current_user.id, task_ids, 204, None)
             /\ UNCHANGED <<USERS, TOKENS, TEAMS, REMINDERS, NOTIFICATIONS, COMMENTS,
                            ATTACHMENTS, uuid, env>>

(***************************************************************************)
(* Teams.                                                                  *)
(***************************************************************************)
TeamOut(id, payload, created_at) ==
    [id |-> id, name |-> payload.name, manager_ids |-> payload.manager_ids,
     member_ids |-> payload.member_ids, created_at |-> created_at]

\* POST /teams
create_team(Authorization, payload) ==
    IF Unauthenticated(Authorization) THEN Raise("create_team", None, payload, 401)
    ELSE LET current_user == _require_auth(Authorization)
             tid == uuid4("team")
             team == TeamOut(tid, payload, _now)
         IN  IF ~_require_role("admin", current_user)
             THEN Raise("create_team", current_user.id, payload, 403)
             ELSE /\ uuid.team < MaxTeams
                  /\ TEAMS' = Put(TEAMS, tid, team)
                  /\ uuid' = [uuid EXCEPT !.team = @ + 1]
                  /\ Respond("create_team", current_user.id, payload, 201, team)
                  /\ UNCHANGED <<USERS, TOKENS, TASKS, REMINDERS, NOTIFICATIONS, COMMENTS,
                                 ATTACHMENTS, env>>

\* PATCH /teams/{team_id}
update_team(Authorization, team_id, payload) ==
    LET arg == [team_id |-> team_id, payload |-> payload]
    IN  IF Unauthenticated(Authorization) THEN Raise("update_team", None, arg, 401)
        ELSE LET current_user == _require_auth(Authorization)
             IN  IF ~_require_role("admin", current_user)
                 THEN Raise("update_team", current_user.id, arg, 403)
                 ELSE IF team_id \notin DOMAIN TEAMS
                 THEN Raise("update_team", current_user.id, arg, 404)
                 ELSE LET updated == TeamOut(team_id, payload, TEAMS[team_id].created_at)
                      IN  /\ TEAMS' = Put(TEAMS, team_id, updated)
                          /\ Respond("update_team", current_user.id, arg, 200, updated)
                          /\ UNCHANGED <<USERS, TOKENS, TASKS, REMINDERS, NOTIFICATIONS,
                                         COMMENTS, ATTACHMENTS, uuid, env>>

\* DELETE /teams/{team_id}
delete_team(Authorization, team_id) ==
    IF Unauthenticated(Authorization) THEN Raise("delete_team", None, team_id, 401)
    ELSE LET current_user == _require_auth(Authorization)
         IN  IF ~_require_role("admin", current_user)
             THEN Raise("delete_team", current_user.id, team_id, 403)
             ELSE IF team_id \notin DOMAIN TEAMS
             THEN Raise("delete_team", current_user.id, team_id, 404)
             ELSE /\ TEAMS' = Pop(TEAMS, team_id)
                  /\ Respond("delete_team", current_user.id, team_id, 204, None)
                  /\ UNCHANGED <<USERS, TOKENS, TASKS, REMINDERS, NOTIFICATIONS, COMMENTS,
                                 ATTACHMENTS, uuid, env>>

\* POST /teams/{team_id}/members
add_member(Authorization, team_id, user_id) ==
    LET arg == [team_id |-> team_id, user_id |-> user_id]
    IN  IF Unauthenticated(Authorization) THEN Raise("add_member", None, arg, 401)
        ELSE LET current_user == _require_auth(Authorization)
             IN  IF ~_require_role("manager", current_user)
                 THEN Raise("add_member", current_user.id, arg, 403)
                 ELSE IF team_id \notin DOMAIN TEAMS
                 THEN Raise("add_member", current_user.id, arg, 404)
                 ELSE LET t == TEAMS[team_id]
                          updated == IF ~InList(user_id, t.member_ids)
                                     THEN [t EXCEPT !.member_ids = Append(@, user_id)]
                                     ELSE t
                      IN  /\ TEAMS' = Put(TEAMS, team_id, updated)
                          /\ Respond("add_member", current_user.id, arg, 200, updated)
                          /\ UNCHANGED <<USERS, TOKENS, TASKS, REMINDERS, NOTIFICATIONS,
                                         COMMENTS, ATTACHMENTS, uuid, env>>

\* DELETE /teams/{team_id}/members/{user_id}
remove_member(Authorization, team_id, user_id) ==
    LET arg == [team_id |-> team_id, user_id |-> user_id]
    IN  IF Unauthenticated(Authorization) THEN Raise("remove_member", None, arg, 401)
        ELSE LET current_user == _require_auth(Authorization)
             IN  IF ~_require_role("manager", current_user)
                 THEN Raise("remove_member", current_user.id, arg, 403)
                 ELSE IF team_id \notin DOMAIN TEAMS
                 THEN Raise("remove_member", current_user.id, arg, 404)
                 ELSE LET t == TEAMS[team_id]
                          keep(uid) == uid # user_id
                          updated == [t EXCEPT !.member_ids = SelectSeq(@, keep)]
                      IN  /\ TEAMS' = Put(TEAMS, team_id, updated)
                          /\ Respond("remove_member", current_user.id, arg, 200, updated)
                          /\ UNCHANGED <<USERS, TOKENS, TASKS, REMINDERS, NOTIFICATIONS,
                                         COMMENTS, ATTACHMENTS, uuid, env>>

(***************************************************************************)
(* Comments, attachments and reminders (per task).                         *)
(***************************************************************************)
\* POST /tasks/{task_id}/comments
create_comment(Authorization, task_id, payload) ==
    LET arg == [task_id |-> task_id, payload |-> payload]
    IN  IF Unauthenticated(Authorization) THEN Raise("create_comment", None, arg, 401)
        ELSE LET current == _require_auth(Authorization)
                 cid == uuid4("comment")
                 comment == [id |-> cid, task_id |-> task_id, author_id |-> current.id,
                             text |-> payload.text, created_at |-> _now]
             IN  IF task_id \notin DOMAIN TASKS
                 THEN Raise("create_comment", current.id, arg, 404)
                 ELSE /\ uuid.comment < MaxComments
                      /\ COMMENTS' = Put(COMMENTS, cid, comment)
                      /\ uuid' = [uuid EXCEPT !.comment = @ + 1]
                      /\ Respond("create_comment", current.id, arg, 201, comment)
                      /\ UNCHANGED <<USERS, TOKENS, TEAMS, TASKS, REMINDERS, NOTIFICATIONS,
                                     ATTACHMENTS, env>>

\* this variant does not join the comment to the task of the path
delete_comment_any_parent(Authorization, task_id, comment_id) ==
    LET arg == [task_id |-> task_id, comment_id |-> comment_id]
    IN  IF Unauthenticated(Authorization) THEN Raise("delete_comment", None, arg, 401)
        ELSE LET current == _require_auth(Authorization)
             IN  IF comment_id \notin DOMAIN COMMENTS
                 THEN Raise("delete_comment", current.id, arg, 404)
                 ELSE IF current.role \notin {"manager", "admin"}
                         /\ current.id # COMMENTS[comment_id].author_id
                 THEN Raise("delete_comment", current.id, arg, 403)
                 ELSE /\ COMMENTS' = Pop(COMMENTS, comment_id)
                      /\ Respond("delete_comment", current.id, arg, 204, None)
                      /\ UNCHANGED <<USERS, TOKENS, TEAMS, TASKS, REMINDERS, NOTIFICATIONS,
                                     ATTACHMENTS, uuid, env>>

\* DELETE /tasks/{task_id}/comments/{comment_id}
delete_comment(Authorization, task_id, comment_id) ==
    LET arg == [task_id |-> task_id, comment_id |-> comment_id]
    IN  IF Unauthenticated(Authorization) THEN Raise("delete_comment", None, arg, 401)
        ELSE LET current == _require_auth(Authorization)
             IN  IF comment_id \notin DOMAIN COMMENTS
                    \/ COMMENTS[comment_id].task_id # task_id
                 THEN Raise("delete_comment", current.id, arg, 404)
                 ELSE IF current.role \notin {"manager", "admin"}
                         /\ current.id # COMMENTS[comment_id].author_id
                 THEN Raise("delete_comment", current.id, arg, 403)
                 ELSE /\ COMMENTS' = Pop(COMMENTS, comment_id)
                      /\ Respond("delete_comment", current.id, arg, 204, None)
                      /\ UNCHANGED <<USERS, TOKENS, TEAMS, TASKS, REMINDERS, NOTIFICATIONS,
                                     ATTACHMENTS, uuid, env>>

\* POST /tasks/{task_id}/attachments
add_attachment(Authorization, task_id, payload) ==
    LET arg == [task_id |-> task_id, payload |-> payload]
    IN  IF Unauthenticated(Authorization) THEN Raise("add_attachment", None, arg, 401)
        ELSE LET current == _require_auth(Authorization)
                 aid == uuid4("attachment")
                 att == [id |-> aid, task_id |-> task_id, filename |-> payload.filename,
                         url |-> payload.url, uploaded_at |-> _now]
             IN  IF task_id \notin DOMAIN TASKS
                 THEN Raise("add_attachment", current.id, arg, 404)
                 ELSE /\ uuid.attachment < MaxAttachments
                      /\ ATTACHMENTS' = Put(ATTACHMENTS, aid, att)
                      /\ uuid' = [uuid EXCEPT !.attachment = @ + 1]
                      /\ Respond("add_attachment", current.id, arg, 201, att)
                      /\ UNCHANGED <<USERS, TOKENS, TEAMS, TASKS, REMINDERS, NOTIFICATIONS,
                                     COMMENTS, env>>

\* DELETE /tasks/{task_id}/attachments/{attachment_id}
delete_attachment(Authorization, task_id, attachment_id) ==
    LET arg == [task_id |-> task_id, attachment_id |-> attachment_id]
    IN  IF Unauthenticated(Authorization) THEN Raise("delete_attachment", None, arg, 401)
        ELSE LET current == _require_auth(Authorization)
             IN  IF attachment_id \notin DOMAIN ATTACHMENTS
                    \/ ATTACHMENTS[attachment_id].task_id # task_id
                 THEN Raise("delete_attachment", current.id, arg, 404)
                 ELSE /\ ATTACHMENTS' = Pop(ATTACHMENTS, attachment_id)
                      /\ Respond("delete_attachment", current.id, arg, 204, None)
                      /\ UNCHANGED <<USERS, TOKENS, TEAMS, TASKS, REMINDERS, NOTIFICATIONS,
                                     COMMENTS, uuid, env>>

\* POST /tasks/{task_id}/reminders
create_reminder(Authorization, task_id, payload) ==
    LET arg == [task_id |-> task_id, payload |-> payload]
    IN  IF Unauthenticated(Authorization) THEN Raise("create_reminder", None, arg, 401)
        ELSE LET current == _require_auth(Authorization)
                 rid == uuid4("reminder")
                 reminder == [id |-> rid, task_id |-> task_id,
                              remind_at |-> payload.remind_at, created_at |-> _now]
             IN  IF task_id \notin DOMAIN TASKS
                 THEN Raise("create_reminder", current.id, arg, 404)
                 ELSE /\ uuid.reminder < MaxReminders
                      /\ REMINDERS' = Put(REMINDERS, rid, reminder)
                      /\ uuid' = [uuid EXCEPT !.reminder = @ + 1]
                      /\ Respond("create_reminder", current.id, arg, 201, reminder)
                      /\ UNCHANGED <<USERS, TOKENS, TEAMS, TASKS, NOTIFICATIONS, COMMENTS,
                                     ATTACHMENTS, env>>

\* DELETE /tasks/{task_id}/reminders/{reminder_id}
delete_reminder(Authorization, task_id, reminder_id) ==
    LET arg == [task_id |-> task_id, reminder_id |-> reminder_id]
    IN  IF Unauthenticated(Authorization) THEN Raise("delete_reminder", None, arg, 401)
        ELSE LET current == _require_auth(Authorization)
             IN  IF reminder_id \notin DOMAIN REMINDERS
                    \/ REMINDERS[reminder_id].task_id # task_id
                 THEN Raise("delete_reminder", current.id, arg, 404)
                 ELSE /\ REMINDERS' = Pop(REMINDERS, reminder_id)
                      /\ Respond("delete_reminder", current.id, arg, 204, None)
                      /\ UNCHANGED <<USERS, TOKENS, TEAMS, TASKS, NOTIFICATIONS, COMMENTS,
                                     ATTACHMENTS, uuid, env>>

(***************************************************************************)
(* Notifications.                                                          *)
(***************************************************************************)
\* this variant shows every notification to every caller
addressed_to_anyone(n, current) == TRUE

\* whether a non-admin caller is shown / may touch the notification n
addressed_to(n, current) == n.recipient_id = None \/ n.recipient_id = current.id

\* this variant keeps to the visibility of tasks: a caller who is not an
\* admin is shown a notification only if its task is among the visible ones
list_notifications_scoped(Authorization, is_read, limit, offset) ==
    LET arg == [is_read |-> is_read, limit |-> limit, offset |-> offset]
    IN  IF Unauthenticated(Authorization) THEN Raise("list_notifications", None, arg, 401)
        ELSE LET current == _require_auth(Authorization)
                 seen == _visible_tasks_for(current)
                 mine(n) == /\ addressed_to(n, current)
                            /\ \E i \in 1..Len(seen) : seen[i].id = n.task_id
                 wanted(n) == n.is_read = is_read[1]
                 all == values(NOTIFICATIONS)
                 scoped == IF current.role # "admin" THEN SelectSeq(all, mine) ELSE all
                 items == IF is_read # None THEN SelectSeq(scoped, wanted) ELSE scoped
             IN  /\ Respond("list_notifications", current.id, arg, 200,
                                     Slice(items, offset, limit))
                 /\ UNCHANGED <<maps, uuid, env>>

\* GET /notifications; is_read is None, <<TRUE>> or <<FALSE>>
list_notifications(Authorization, is_read, limit, offset) ==
    LET arg == [is_read |-> is_read, limit |-> limit, offset |-> offset]
    IN  IF Unauthenticated(Authorization) THEN Raise("list_notifications", None, arg, 401)
        ELSE LET current == _require_auth(Authorization)
                 mine(n) == addressed_to(n, current)
                 wanted(n) == n.is_read = is_read[1]
                 all == values(NOTIFICATIONS)
                 scoped == IF current.role # "admin" THEN SelectSeq(all, mine) ELSE all
                 items == IF is_read # None THEN SelectSeq(scoped, wanted) ELSE scoped
             IN  /\ Respond("list_notifications", current.id, arg, 200,
                                     Slice(items, offset, limit))
                 /\ UNCHANGED <<maps, uuid, env>>

\* this variant flips the flag instead of setting it
mark_notification_read_toggle(Authorization, notification_id) ==
    IF Unauthenticated(Authorization)
    THEN Raise("mark_notification_read", None, notification_id, 401)
    ELSE LET current == _require_auth(Authorization)
         IN  IF notification_id \notin DOMAIN NOTIFICATIONS
             THEN Raise("mark_notification_read", current.id, notification_id, 404)
             ELSE IF current.role # "admin"
                     /\ ~addressed_to(NOTIFICATIONS[notification_id], current)
             THEN Raise("mark_notification_read", current.id, notification_id, 403)
             ELSE LET n == [NOTIFICATIONS[notification_id] EXCEPT !.is_read = ~@]
                  IN  /\ NOTIFICATIONS' = Put(NOTIFICATIONS, notification_id, n)
                      /\ Respond("mark_notification_read", current.id,
                                          notification_id, 200, n)
                      /\ UNCHANGED <<USERS, TOKENS, TEAMS, TASKS, REMINDERS, COMMENTS,
                                     ATTACHMENTS, uuid, env>>

\* PATCH /notifications/{notification_id}/read
mark_notification_read(Authorization, notification_id) ==
    IF Unauthenticated(Authorization)
    THEN Raise("mark_notification_read", None, notification_id, 401)
    ELSE LET current == _require_auth(Authorization)
         IN  IF notification_id \notin DOMAIN NOTIFICATIONS
             THEN Raise("mark_notification_read", current.id, notification_id, 404)
             ELSE IF current.role # "admin"
                     /\ ~addressed_to(NOTIFICATIONS[notification_id], current)
             THEN Raise("mark_notification_read", current.id, notification_id, 403)
             ELSE LET n == [NOTIFICATIONS[notification_id] EXCEPT !.is_read = TRUE]
                  IN  /\ NOTIFICATIONS' = Put(NOTIFICATIONS, notification_id, n)
                      /\ Respond("mark_notification_read", current.id,
                                          notification_id, 200, n)
                      /\ UNCHANGED <<USERS, TOKENS, TEAMS, TASKS, REMINDERS, COMMENTS,
                                     ATTACHMENTS, uuid, env>>

\* this variant has lost the test of the recipient: every caller marks all
mark_all_notifications_read_of_all(Authorization) ==
    IF Unauthenticated(Authorization)
    THEN Raise("mark_all_notifications_read", None, None, 401)
    ELSE LET current == _require_auth(Authorization)
         IN  /\ NOTIFICATIONS' =
                    [k \in DOMAIN NOTIFICATIONS |->
                        [NOTIFICATIONS[k] EXCEPT !.is_read = TRUE]]
             /\ Respond("mark_all_notifications_read", current.id, None, 204, None)
             /\ UNCHANGED <<USERS, TOKENS, TEAMS, TASKS, REMINDERS, COMMENTS, ATTACHMENTS,
                            uuid, env>>

\* PATCH /notifications/read-all
mark_all_notifications_read(Authorization) ==
    IF Unauthenticated(Authorization)
    THEN Raise("mark_all_notifications_read", None, None, 401)
    ELSE LET current == _require_auth(Authorization)
         IN  /\ NOTIFICATIONS' =
                    [k \in DOMAIN NOTIFICATIONS |->
                        IF current.role = "admin" \/ addressed_to(NOTIFICATIONS[k], current)
                        THEN [NOTIFICATIONS[k] EXCEPT !.is_read = TRUE]
                        ELSE NOTIFICATIONS[k]]
             /\ Respond("mark_all_notifications_read", current.id, None, 204, None)
             /\ UNCHANGED <<USERS, TOKENS, TEAMS, TASKS, REMINDERS, COMMENTS, ATTACHMENTS,
                            uuid, env>>

\* DELETE /notifications/{notification_id}
delete_notification(Authorization, notification_id) ==
    IF Unauthenticated(Authorization)
    THEN Raise("delete_notification", None, notification_id, 401)
    ELSE LET current == _require_auth(Authorization)
         IN  IF notification_id \notin DOMAIN NOTIFICATIONS
             THEN Raise("delete_notification", current.id, notification_id, 404)
             ELSE IF current.role # "admin"
                     /\ ~addressed_to(NOTIFICATIONS[notification_id], current)
             THEN Raise("delete_notification", current.id, notification_id, 403)
             ELSE /\ NOTIFICATIONS' = Pop(NOTIFICATIONS, notification_id)
                  /\ Respond("delete_notification", current.id, notification_id,
                                      204, None)
                  /\ UNCHANGED <<USERS, TOKENS, TEAMS, TASKS, REMINDERS, COMMENTS,
                                 ATTACHMENTS, uuid, env>>

(***************************************************************************)
(* Simulation: the manually triggered sweep.                               *)
(***************************************************************************)
RECURSIVE Sweep_two_days(_, _, _, _, _)
\* this variant takes the dashboards' window: due soon up to today + 2
Sweep_two_days(items, i, now, N, n) ==
    IF i > Len(items) THEN [N |-> N, n |-> n]
    ELSE LET t == items[i]
         IN  IF t.due_date = None THEN Sweep_two_days(items, i + 1, now, N, n)
             ELSE IF t.due_date[1] < now
             THEN Sweep_two_days(items, i + 1, now,
                        _notify(N, n, "TASK_OVERDUE", t.id, t.assignee_id), n + 1)
             ELSE IF t.due_date[1] <= now + 2
             THEN Sweep_two_days(items, i + 1, now,
                        _notify(N, n, "TASK_DUE_SOON", t.id, t.assignee_id), n + 1)
             ELSE Sweep_two_days(items, i + 1, now, N, n)

RECURSIVE Sweep_once(_, _, _, _, _)
\* this variant deduplicates: a task that already has a notification of the
\* type it is owed, for the same recipient, is passed over
Sweep_once(items, i, now, N, n) ==
    IF i > Len(items) THEN [N |-> N, n |-> n]
    ELSE LET t == items[i]
             told(ntype) == \E m \in DOMAIN N :
                                /\ N[m].type = ntype
                                /\ N[m].task_id = t.id
                                /\ N[m].recipient_id = t.assignee_id
         IN  IF t.due_date = None THEN Sweep_once(items, i + 1, now, N, n)
             ELSE IF t.due_date[1] < now
             THEN IF told("TASK_OVERDUE") THEN Sweep_once(items, i + 1, now, N, n)
                  ELSE Sweep_once(items, i + 1, now,
                           _notify(N, n, "TASK_OVERDUE", t.id, t.assignee_id), n + 1)
             ELSE IF t.due_date[1] = now \/ t.due_date[1] = now + 1
             THEN IF told("TASK_DUE_SOON") THEN Sweep_once(items, i + 1, now, N, n)
                  ELSE Sweep_once(items, i + 1, now,
                           _notify(N, n, "TASK_DUE_SOON", t.id, t.assignee_id), n + 1)
             ELSE Sweep_once(items, i + 1, now, N, n)

RECURSIVE Sweep(_, _, _, _, _)
\* the loop of simulate_notifications over items[i..], from the notification
\* map N with n identifiers drawn: the map and the counter it ends with
Sweep(items, i, now, N, n) ==
    IF i > Len(items) THEN [N |-> N, n |-> n]
    ELSE LET t == items[i]
         IN  IF t.due_date = None THEN Sweep(items, i + 1, now, N, n)
             ELSE IF t.due_date[1] < now
             THEN Sweep(items, i + 1, now,
                        _notify(N, n, "TASK_OVERDUE", t.id, t.assignee_id), n + 1)
             ELSE IF t.due_date[1] = now \/ t.due_date[1] = now + 1
             THEN Sweep(items, i + 1, now,
                        _notify(N, n, "TASK_DUE_SOON", t.id, t.assignee_id), n + 1)
             ELSE Sweep(items, i + 1, now, N, n)

\* POST /simulate/notifications/run
simulate_notifications(Authorization) ==
    IF Unauthenticated(Authorization) THEN Raise("simulate_notifications", None, None, 401)
    ELSE LET current_user == _require_auth(Authorization)
             now == today
             swept == Sweep(values(TASKS), 1, now, NOTIFICATIONS, uuid.notif)
             created == swept.n - uuid.notif
         IN  /\ swept.n <= MaxNotifs
             /\ NOTIFICATIONS' = swept.N
             /\ uuid' = [uuid EXCEPT !.notif = swept.n]
             /\ Respond("simulate_notifications", current_user.id, None, 201,
                                 [notifications_created |-> created])
             /\ UNCHANGED <<USERS, TOKENS, TEAMS, TASKS, REMINDERS, COMMENTS, ATTACHMENTS,
                            env>>

(***************************************************************************)
(* The environment.                                                        *)
(***************************************************************************)
\* midnight passes: date.today() returns the next day
AdvanceDay ==
    /\ Idle
    /\ today < MaxDay
    /\ today' = today + 1
    /\ UNCHANGED <<maps, uuid, clock, last, inflight>>

\* the response is taken and time passes: the next datetime.utcnow() returns
\* a later value than every one before
Tick ==
    /\ clock < MaxClock
    /\ clock' = clock + 1
    /\ last' = NoResponse
    /\ UNCHANGED <<maps, uuid, today, inflight>>

(***************************************************************************)
(* Requests: the inputs the handlers are driven with.                      *)
(***************************************************************************)
\* the Authorization headers of the four logged-in users
Callers == DOMAIN PopulationTokens

\* every task identifier uuid4() can have returned, and the seed task's
TaskIds == {Id("task", n) : n \in 0..MaxTasks}

TeamIds == {Id("team", n) : n \in 1..MaxTeams}

NotifIds == {Id("notif", n) : n \in 1..MaxNotifs}

\* TaskCreate with the model's defaults for the fields a request leaves out
TaskCreate(assignee_id, team_id, due_date) ==
    [title |-> "task", description |-> None, priority |-> "medium",
     status |-> "not_started", progress |-> 0, due_date |-> due_date,
     assignee_id |-> assignee_id, team_id |-> team_id]

TeamCreate(manager_ids, member_ids) ==
    [name |-> "team", manager_ids |-> manager_ids, member_ids |-> member_ids]

CommentCreate == [text |-> "comment"]

AttachmentCreate == [filename |-> "file.txt", url |-> "https://example.com/file.txt"]

\* a reminder for the day after the seed task is due
ReminderCreate == [remind_at |-> SeedTask.due_date[1] + 1]

\* UserCreate / RegisterIn with the model's default for team_ids
UserCreate(email, role) == [email |-> email, role |-> role, team_ids |-> <<>>]

(***************************************************************************)
(* Visibility: teams, task creation and the two task reads.                *)
(***************************************************************************)
VisTaskPayloads ==
    {TaskCreate(a, t, None) : a \in {None, manager_id, user1_id},
                              t \in {None, Id("team", 1)}}

\* a team the manager manages, one the manager is only a member of, and one
\* that lists a user-role user as its manager
VisTeamPayloads ==
    {TeamCreate(<<manager_id>>, <<user1_id>>),
     TeamCreate(<<>>, <<manager_id, user1_id>>),
     TeamCreate(<<user1_id>>, <<manager_id>>)}

NextVis ==
    \/ \E p \in VisTeamPayloads : create_team(TokenOf(admin_id), p)
    \/ \E t \in TeamIds : delete_team(TokenOf(admin_id), t)
    \/ \E c \in Callers \ {TokenOf(admin_id)}, p \in VisTaskPayloads : create_task(c, p)
    \/ \E t \in TaskIds : delete_task(TokenOf(admin_id), t)
    \/ \E c \in Callers : list_tasks(c, 20, 0)
    \/ \E c \in Callers, t \in TaskIds : get_task(c, t)
    \/ Collect

SpecVis == Init /\ [][NextVis]_vars

(***************************************************************************)
(* The access guard: every task write, by every caller, on the seed task   *)
(* (created by the admin) and on an identifier that is not in TASKS.       *)
(***************************************************************************)
\* a team that lists the manager as a member only
GuardTeamPayload == TeamCreate(<<user1_id>>, <<manager_id>>)

\* the body of a full replace: the task moves to that team
GuardReplacePayload == TaskCreate(None, Id("team", 1), None)

GuardTaskLists == {<<seed_task_id>>, <<Id("task", 1), seed_task_id>>}

NextGuard ==
    \/ create_team(TokenOf(admin_id), GuardTeamPayload)
    \/ \E c \in Callers, t \in TaskIds : replace_task(c, t, GuardReplacePayload)
    \/ \E c \in Callers, t \in TaskIds : update_task(c, t, [status |-> "completed"])
    \/ \E c \in Callers, t \in TaskIds : delete_task(c, t)
    \/ \E c \in Callers, t \in TaskIds : set_status(c, t, "completed")
    \/ \E c \in Callers, t \in TaskIds : set_progress(c, t, 50)
    \/ \E c \in Callers, t \in TaskIds : set_assignee(c, t, user2_id)
    \/ \E c \in Callers, l \in GuardTaskLists : bulk_set_status(c, l, "completed")
    \/ \E c \in Callers, l \in GuardTaskLists : bulk_delete(c, l)
    \/ Collect

SpecGuard == Init /\ [][NextGuard]_vars

(***************************************************************************)
(* Notifications: task creation, the sweep on successive days, and the     *)
(* listing of notifications by every caller.                               *)
(***************************************************************************)
\* due today, in two days (outside the window on day 0), in five days
NotifTaskPayloads ==
    {TaskCreate(a, None, d) : a \in {None, user1_id, user2_id},
                              d \in {None, Some(0), Some(2), Some(5)}}

\* (limit, offset): the defaults, and a page of one after the first item
NotifPages == {<<50, 0>>, <<1, 1>>}

NextNotif ==
    \/ \E p \in NotifTaskPayloads : create_task(TokenOf(user1_id), p)
    \/ \E c \in Callers : simulate_notifications(c)
    \/ AdvanceDay
    \/ \E c \in Callers, r \in {None, Some(FALSE)}, pg \in NotifPages :
          list_notifications(c, r, pg[1], pg[2])
    \/ Collect

SpecNotif == Init /\ [][NextNotif]_vars

(***************************************************************************)
(* The read flag: notifications of both kinds (a broadcast from set_status, *)
(* an addressed one from set_assignee), marked read one by one and in bulk  *)
(* and deleted, by every caller.                                            *)
(***************************************************************************)
NextRead ==
    \/ set_status(TokenOf(user1_id), seed_task_id, "completed")
    \/ set_assignee(TokenOf(user1_id), seed_task_id, user2_id)
    \/ \E c \in Callers, n \in NotifIds : mark_notification_read(c, n)
    \/ \E c \in Callers : mark_all_notifications_read(c)
    \/ \E c \in {TokenOf(admin_id), TokenOf(user2_id)}, n \in NotifIds :
          delete_notification(c, n)
    \/ Collect

SpecRead == Init /\ [][NextRead]_vars

(***************************************************************************)
(* Task writes: creation, full replace, partial update and the convenience *)
(* and bulk endpoints, with bodies inside and outside the range of         *)
(* progress and with changes of assignee.                                  *)
(***************************************************************************)
\* a TaskCreate body with this assignee and this progress
TaskCreateWith(assignee_id, progress) ==
    [TaskCreate(assignee_id, None, None) EXCEPT !.progress = progress]

WriteCreatePayloads == {TaskCreateWith(None, 100), TaskCreateWith(None, 101)}

WriteReplacePayloads == {TaskCreateWith(None, 100), TaskCreateWith(None, 0 - 1)}

\* TaskUpdate bodies, by the fields they set
WriteUpdatePayloads == {[progress |-> 101], [progress |-> 0 - 1], [progress |-> 100]}

WriteTaskLists == {<<seed_task_id>>, <<Id("task", 1), seed_task_id>>}

NextWrite ==
    \/ \E p \in WriteCreatePayloads : create_task(TokenOf(user1_id), p)
    \/ \E t \in TaskIds, p \in WriteReplacePayloads :
          replace_task(TokenOf(manager_id), t, p)
    \/ \E t \in TaskIds, p \in WriteUpdatePayloads :
          update_task(TokenOf(user1_id), t, p)
    \/ \E t \in TaskIds : set_status(TokenOf(user2_id), t, "blocked")
    \/ \E t \in TaskIds, p \in {0 - 1, 100, 101} :
          set_progress(TokenOf(user2_id), t, p)
    \/ \E t \in TaskIds : set_assignee(TokenOf(user2_id), t, None)
    \/ \E l \in WriteTaskLists : bulk_set_status(TokenOf(admin_id), l, "blocked")
    \/ Collect

SpecWrite == Init /\ [][NextWrite]_vars

(***************************************************************************)
(* What the writes of a task emit: the seed task is replaced, updated,     *)
(* given a status and given or taken an assignee.                          *)
(***************************************************************************)
\* TaskUpdate bodies, by the fields they set: a new assignee, a new status
EmitUpdatePayloads == {[assignee_id |-> user1_id], [status |-> "completed"]}

NextEmit ==
    \/ \E c \in {TokenOf(admin_id), TokenOf(user1_id)}, t \in TaskIds :
          replace_task(c, t, TaskCreate(user2_id, None, None))
    \/ \E c \in {TokenOf(manager_id), TokenOf(user1_id)}, t \in TaskIds,
          p \in EmitUpdatePayloads : update_task(c, t, p)
    \/ \E t \in TaskIds : set_status(TokenOf(user1_id), t, "blocked")
    \/ \E t \in TaskIds, a \in {None, user1_id, user2_id} :
          set_assignee(TokenOf(user2_id), t, a)
    \/ Collect

SpecEmit == Init /\ [][NextEmit]_vars

(***************************************************************************)
(* Users, roles and teams: registration and login of a new user, the user  *)
(* and team management of the admins, team membership, by every caller,    *)
(* the token of the new user included.                                     *)
(***************************************************************************)
NewEmail == "new@example.com"

\* the tokens of the admin, the manager and user1, and the first token
\* login() issues
UsersCallers ==
    (Callers \ {TokenOf(user2_id)}) \cup {Id("token", Cardinality(DOMAIN PopulationTokens))}

\* the first user created
NewUser == Id("user", Cardinality(DOMAIN Population))

NextUsers ==
    \/ register(UserCreate(NewEmail, "manager"))
    \/ login(NewEmail)
    \/ \E c \in UsersCallers : create_user(c, UserCreate(NewEmail, "user"))
    \/ \E c \in UsersCallers :
          update_user(c, user1_id, UserCreate("changed@example.com", "manager"))
    \/ \E c \in UsersCallers, u \in {user2_id, NewUser} : delete_user(c, u)
    \/ \E c \in UsersCallers : create_team(c, TeamCreate(<<manager_id>>, <<>>))
    \/ \E c \in UsersCallers, t \in TeamIds :
          update_team(c, t, TeamCreate(<<>>, <<user1_id>>))
    \/ \E c \in UsersCallers, t \in TeamIds : delete_team(c, t)
    \/ \E c \in UsersCallers, t \in TeamIds : add_member(c, t, user2_id)
    \/ \E c \in UsersCallers, t \in TeamIds : remove_member(c, t, user2_id)
    \/ Collect

SpecUsers == Init /\ [][NextUsers]_vars

(***************************************************************************)
(* Timestamps: the task writes under a clock that advances between any two *)
(* requests.  The seed task was stamped when the module was loaded, so the *)
(* first request is served after the clock has moved past its timestamps.  *)
(***************************************************************************)
\* the clock has moved past the timestamps of the seed task
Loaded == clock > SeedTask.updated_at

NextTime ==
    \/ Tick
    \/ Loaded /\ create_task(TokenOf(user1_id), TaskCreate(None, None, None))
    \/ Loaded /\ \E t \in TaskIds :
                    replace_task(TokenOf(manager_id), t, TaskCreateWith(None, 100))
    \/ Loaded /\ \E t \in TaskIds :
                    update_task(TokenOf(manager_id), t, [status |-> "completed"])
    \/ Loaded /\ \E t \in TaskIds : set_status(TokenOf(user2_id), t, "blocked")
    \/ Loaded /\ \E t \in TaskIds : set_progress(TokenOf(user2_id), t, 50)
    \/ Loaded /\ \E t \in TaskIds : set_assignee(TokenOf(user2_id), t, None)
    \/ Loaded /\ bulk_set_status(TokenOf(admin_id), <<Id("task", 1), seed_task_id>>,
                                  "blocked")

SpecTime == Init /\ [][NextTime]_vars

(***************************************************************************)
(* Concurrent requests: each worker thread serves one request, a status    *)
(* update or a progress update of a task, and the steps of the threads     *)
(* interleave.                                                             *)
(***************************************************************************)
NextConc ==
    \/ \E th \in Threads, t \in TaskIds :
          set_status_read(th, TokenOf(user1_id), t, "completed")
    \/ \E th \in Threads : set_status_write(th)
    \/ \E th \in Threads : set_status_notify(th)
    \/ \E th \in Threads, t \in TaskIds, p \in {50, 101} :
          set_progress_read(th, TokenOf(user2_id), t, p)
    \/ \E th \in Threads : set_progress_write(th)
    \/ \E th \in Threads : thread_returns(th)

SpecConc == Init /\ [][NextConc]_vars

(***************************************************************************)
(* The life of a notification: the operations that reach the dispatcher,   *)
(* the ones that read, mark and delete notifications, and other writes of  *)
(* tasks, comments and reminders.                                          *)
(* The task writes carry the values the seed task already has, so that     *)
(* what differs from one state to the next is the notifications.           *)
(***************************************************************************)
\* a TaskCreate body with the fields of the seed task
SeedBody ==
    [title |-> SeedTask.title, description |-> SeedTask.description,
     priority |-> SeedTask.priority, status |-> SeedTask.status,
     progress |-> SeedTask.progress, due_date |-> SeedTask.due_date,
     assignee_id |-> SeedTask.assignee_id, team_id |-> SeedTask.team_id]

NextFrame ==
    \/ create_task(TokenOf(user1_id), TaskCreate(user2_id, None, None))
    \/ replace_task(TokenOf(admin_id), seed_task_id, SeedBody)
    \/ update_task(TokenOf(manager_id), seed_task_id, [priority |-> SeedTask.priority])
    \/ set_status(TokenOf(user1_id), seed_task_id, SeedTask.status)
    \/ set_assignee(TokenOf(user1_id), seed_task_id, user2_id)
    \/ \E c \in {TokenOf(admin_id), TokenOf(user1_id), TokenOf(user2_id)} :
          delete_notification(c, Id("notif", 1))
    \/ mark_all_notifications_read(TokenOf(user2_id))
    \/ list_notifications(TokenOf(user2_id), None, 50, 0)
    \/ set_progress(TokenOf(user1_id), seed_task_id, SeedTask.progress)
    \/ delete_task(TokenOf(user1_id), Id("task", 1))
    \/ create_comment(TokenOf(user1_id), seed_task_id, CommentCreate)
    \/ create_reminder(TokenOf(user1_id), seed_task_id, ReminderCreate)
    \/ simulate_notifications(TokenOf(user1_id))
    \/ Collect

SpecFrame == Init /\ [][NextFrame]_vars

(***************************************************************************)
(* Tasks and their comments, attachments and reminders: the child records  *)
(* are created and deleted under every task identifier, that of a task     *)
(* that exists, of one that was deleted and of one the child is not of.    *)
(***************************************************************************)
CommentIds == {Id("comment", n) : n \in 1..MaxComments}

AttachmentIds == {Id("attachment", n) : n \in 1..MaxAttachments}

ReminderIds == {Id("reminder", n) : n \in 1..MaxReminders}

\* the tasks the child records are filed under: the seed task and the first
\* task created
ChildParents == {seed_task_id, Id("task", 1)}

NextChild ==
    \/ create_task(TokenOf(user1_id), TaskCreate(None, None, None))
    \/ \E t \in TaskIds : delete_task(TokenOf(admin_id), t)
    \/ bulk_delete(TokenOf(user1_id), <<seed_task_id>>)
    \/ \E t \in ChildParents : create_comment(TokenOf(user1_id), t, CommentCreate)
    \/ \E t \in ChildParents : add_attachment(TokenOf(user1_id), t, AttachmentCreate)
    \/ \E t \in ChildParents : create_reminder(TokenOf(user1_id), t, ReminderCreate)
    \/ \E c \in {TokenOf(user1_id), TokenOf(user2_id)}, t \in ChildParents, k \in CommentIds :
          delete_comment(c, t, k)
    \/ \E t \in ChildParents, k \in AttachmentIds : delete_attachment(TokenOf(user2_id), t, k)
    \/ \E t \in ChildParents, k \in ReminderIds : delete_reminder(TokenOf(user2_id), t, k)
    \/ Collect

SpecChild == Init /\ [][NextChild]_vars

(***************************************************************************)
(* Identifiers that are and are not in their map: callers of every role    *)
(* write tasks, notifications and comments that exist, that never existed  *)
(* and that were deleted, and delete child records under the task they     *)
(* are of and under another.                                               *)
(***************************************************************************)
\* an identifier uuid4() returns for no task
AbsentTask == Id("task", MaxTasks + 1)

\* (caller, task): every caller on the absent task and user2, who created no
\* task, on every task
FoundTaskWrites ==
    {<<c, AbsentTask>> : c \in Callers} \cup {<<TokenOf(user2_id), t>> : t \in TaskIds}

\* the notification of the first assignment and the last identifier there
\* can be, which create_task alone does not come to draw
FoundNotifs == {Id("notif", 1), Id("notif", MaxNotifs)}

NextFound ==
    \/ create_task(TokenOf(user1_id), TaskCreate(user2_id, None, None))
    \/ \E w \in FoundTaskWrites : replace_task(w[1], w[2], SeedBody)
    \/ \E w \in FoundTaskWrites : update_task(w[1], w[2], [priority |-> SeedTask.priority])
    \/ \E c \in Callers, t \in TaskIds : delete_task(c, t)
    \/ \E c \in Callers, n \in FoundNotifs : mark_notification_read(c, n)
    \/ \E c \in Callers, n \in FoundNotifs : delete_notification(c, n)
    \/ create_comment(TokenOf(user1_id), seed_task_id, CommentCreate)
    \/ add_attachment(TokenOf(user1_id), seed_task_id, AttachmentCreate)
    \/ create_reminder(TokenOf(user1_id), seed_task_id, ReminderCreate)
    \/ \E c \in Callers, t \in ChildParents, k \in CommentIds : delete_comment(c, t, k)
    \/ \E k \in AttachmentIds : delete_attachment(TokenOf(user2_id), Id("task", 1), k)
    \/ \E k \in ReminderIds : delete_reminder(TokenOf(user2_id), Id("task", 1), k)
    \/ Collect

SpecFound == Init /\ [][NextFound]_vars

(***************************************************************************)
(* Broadcasts about a task few may see: the seed task, created by the      *)
(* admin and assigned to no one, is written and swept on successive days,  *)
(* a task of user1 is created beside it, and every caller lists the        *)
(* notifications.                                                          *)
(***************************************************************************)
NextLeak ==
    \/ \E a \in {None, user2_id} :
          create_task(TokenOf(user1_id), TaskCreate(a, None, Some(0)))
    \/ replace_task(TokenOf(admin_id), seed_task_id, SeedBody)
    \/ update_task(TokenOf(manager_id), seed_task_id, [priority |-> SeedTask.priority])
    \/ set_status(TokenOf(user1_id), seed_task_id, SeedTask.status)
    \/ simulate_notifications(TokenOf(admin_id))
    \/ AdvanceDay
    \/ mark_notification_read(TokenOf(user1_id), Id("notif", 1))
    \/ \E c \in Callers, r \in {None, Some(FALSE)} : list_notifications(c, r, 50, 0)
    \/ Collect

SpecLeak == Init /\ [][NextLeak]_vars

(***************************************************************************)
(* Requests that are refused: every operation is called without a token,   *)
(* by a user who is not allowed it, and for an identifier that is not in   *)
(* its map, beside the few requests that store what the others then name.  *)
(***************************************************************************)
\* an Authorization header that is no key of TOKENS
NoToken == None

\* (Authorization, task) of the task operations
RejectTaskWrites ==
    {<<NoToken, seed_task_id>>, <<TokenOf(user2_id), seed_task_id>>,
     <<TokenOf(user2_id), Id("task", 1)>>, <<TokenOf(admin_id), AbsentTask>>}

\* (Authorization, task) of the operations that test no role
RejectTaskTouches == {<<NoToken, seed_task_id>>, <<TokenOf(user1_id), AbsentTask>>}

\* (Authorization, notification): the first notification is addressed to
\* user2, the last identifier is not drawn
RejectNotifWrites ==
    {<<NoToken, Id("notif", 1)>>, <<TokenOf(user1_id), Id("notif", 1)>>,
     <<TokenOf(admin_id), Id("notif", MaxNotifs)>>}

\* (Authorization, user): NewUser is not registered
RejectUserWrites ==
    {<<NoToken, user1_id>>, <<TokenOf(user2_id), user1_id>>,
     <<TokenOf(manager_id), user1_id>>, <<TokenOf(admin_id), NewUser>>}

\* (Authorization, team)
RejectTeamWrites ==
    {<<NoToken, t>> : t \in TeamIds} \cup {<<TokenOf(user2_id), t>> : t \in TeamIds}
        \cup {<<TokenOf(admin_id), Id("team", MaxTeams + 1)>>}

NextReject ==
    \/ \E c \in {NoToken, TokenOf(user1_id)} :
          create_task(c, TaskCreate(user2_id, None, None))
    \/ create_comment(TokenOf(user1_id), seed_task_id, CommentCreate)
    \/ create_team(TokenOf(admin_id), TeamCreate(<<manager_id>>, <<>>))
    \/ \E w \in RejectTaskWrites : get_task(w[1], w[2])
    \/ \E w \in RejectTaskWrites : replace_task(w[1], w[2], SeedBody)
    \/ \E w \in RejectTaskWrites :
          update_task(w[1], w[2], [priority |-> SeedTask.priority])
    \/ \E w \in RejectTaskWrites \cup {<<TokenOf(admin_id), Id("task", 1)>>} :
          delete_task(w[1], w[2])
    \/ \E w \in RejectTaskTouches : set_status(w[1], w[2], "completed")
    \/ \E w \in RejectTaskTouches : set_progress(w[1], w[2], 50)
    \/ \E w \in RejectTaskTouches : set_assignee(w[1], w[2], user1_id)
    \/ bulk_set_status(NoToken, <<seed_task_id>>, "completed")
    \/ bulk_delete(NoToken, <<seed_task_id>>)
    \/ \E w \in RejectTaskTouches : create_comment(w[1], w[2], CommentCreate)
    \/ \E w \in RejectTaskTouches : add_attachment(w[1], w[2], AttachmentCreate)
    \/ \E w \in RejectTaskTouches : create_reminder(w[1], w[2], ReminderCreate)
    \/ \E c \in {NoToken, TokenOf(user2_id)}, t \in ChildParents, k \in CommentIds :
          delete_comment(c, t, k)
    \/ \E c \in {NoToken, TokenOf(user2_id)}, k \in AttachmentIds :
          delete_attachment(c, seed_task_id, k)
    \/ \E c \in {NoToken, TokenOf(user2_id)}, k \in ReminderIds :
          delete_reminder(c, seed_task_id, k)
    \/ list_notifications(NoToken, None, 50, 0)
    \/ \E w \in RejectNotifWrites : mark_notification_read(w[1], w[2])
    \/ \E w \in RejectNotifWrites : delete_notification(w[1], w[2])
    \/ mark_all_notifications_read(NoToken)
    \/ simulate_notifications(NoToken)
    \/ login(NewEmail)
    \/ \E c \in {NoToken, TokenOf(user2_id)} : create_user(c, UserCreate(NewEmail, "user"))
    \/ \E w \in RejectUserWrites : update_user(w[1], w[2], UserCreate(NewEmail, "admin"))
    \/ \E w \in RejectUserWrites \cup {<<TokenOf(admin_id), user2_id>>} :
          delete_user(w[1], w[2])
    \/ \E c \in {NoToken, TokenOf(manager_id)} :
          create_team(c, TeamCreate(<<manager_id>>, <<>>))
    \/ \E w \in RejectTeamWrites : update_team(w[1], w[2], TeamCreate(<<>>, <<user1_id>>))
    \/ \E w \in RejectTeamWrites : delete_team(w[1], w[2])
    \/ \E w \in RejectTeamWrites : add_member(w[1], w[2], user2_id)
    \/ \E w \in RejectTeamWrites : remove_member(w[1], w[2], user2_id)
    \/ Collect

SpecReject == Init /\ [][NextReject]_vars

(***************************************************************************)
(* Marking and deleting the notifications of others: the seed task is      *)
(* given a status (a broadcast) and assigned to user1 and to user2 (a      *)
(* notification addressed to each), and every caller marks one, marks all  *)
(* and deletes.                                                            *)
(***************************************************************************)
NextMark ==
    \/ set_status(TokenOf(user1_id), seed_task_id, "completed")
    \/ \E a \in {user1_id, user2_id} : set_assignee(TokenOf(user1_id), seed_task_id, a)
    \/ \E c \in Callers : mark_all_notifications_read(c)
    \/ \E c \in Callers, n \in NotifIds : mark_notification_read(c, n)
    \/ \E c \in Callers, n \in NotifIds : delete_notification(c, n)
    \/ Collect

SpecMark == Init /\ [][NextMark]_vars

(***************************************************************************)
(* Properties of the visibility resolver (checked under SpecVis).          *)
(***************************************************************************)
\* the users of a role
UsersOf(role) == {u \in DOMAIN USERS : USERS[u].role = role}

\* the identifiers of the tasks a list holds
IdsOf(items) == {items[i].id : i \in 1..Len(items)}

\* whether the list holds exactly tasks of TASKS, as they are stored
Stored(items) == \A i \in 1..Len(items) :
                    items[i].id \in DOMAIN TASKS /\ TASKS[items[i].id] = items[i]

\* C1: for a caller with role user, a task is in _visible_tasks_for(caller)
\* iff the caller is its assignee or its creator; teams add nothing.
C1_UserVisibility ==
    \A u \in UsersOf("user") :
        LET seen == _visible_tasks_for(USERS[u])
        IN  /\ Stored(seen)
            /\ \A t \in DOMAIN TASKS :
                  t \in IdsOf(seen) <=>
                      (TASKS[t].assignee_id = u \/ TASKS[t].creator_id = u)

\* a user lists the tasks while a task belongs to a team that names this user
\* as manager and as member, and the task is not in the answer
C1_Witness ==
    /\ last.op = "list_tasks" /\ last.code = 200
    /\ last.caller = user1_id
    /\ \E t \in DOMAIN TASKS, tm \in DOMAIN TEAMS :
          /\ TASKS[t].team_id = tm
          /\ InList(user1_id, TEAMS[tm].manager_ids)
          /\ t \notin IdsOf(last.body)

\* C2: for a caller with role manager, a task is in _visible_tasks_for(caller)
\* iff its team_id is an existing team whose manager_ids hold the caller, or
\* the caller is its assignee or creator; member_ids give nothing.
C2_ManagerVisibility ==
    \A m \in UsersOf("manager") :
        LET seen == _visible_tasks_for(USERS[m])
        IN  /\ Stored(seen)
            /\ \A t \in DOMAIN TASKS :
                  t \in IdsOf(seen) <=>
                      \/ /\ TASKS[t].team_id \in DOMAIN TEAMS
                         /\ InList(m, TEAMS[TASKS[t].team_id].manager_ids)
                      \/ TASKS[t].assignee_id = m
                      \/ TASKS[t].creator_id = m

\* the manager lists the tasks while being only a member of a task's team,
\* and that task is not in the answer
C2_Witness ==
    /\ last.op = "list_tasks" /\ last.code = 200
    /\ last.caller = manager_id
    /\ \E t \in DOMAIN TASKS, tm \in DOMAIN TEAMS :
          /\ TASKS[t].team_id = tm
          /\ InList(manager_id, TEAMS[tm].member_ids)
          /\ ~InList(manager_id, TEAMS[tm].manager_ids)
          /\ t \notin IdsOf(last.body)

\* C3: for a caller with role admin, _visible_tasks_for returns exactly the
\* tasks of TASKS.
C3_AdminVisibility ==
    \A a \in UsersOf("admin") :
        LET seen == _visible_tasks_for(USERS[a])
        IN  /\ Stored(seen)
            /\ IdsOf(seen) = DOMAIN TASKS
            /\ Len(seen) = Cardinality(DOMAIN TASKS)

\* the admin lists the tasks and is given a task of another user's, assigned
\* to a third user, in a team the admin does not manage
C3_Witness ==
    /\ last.op = "list_tasks" /\ last.code = 200
    /\ last.caller = admin_id
    /\ \E i \in 1..Len(last.body) :
          /\ last.body[i].creator_id = user2_id
          /\ last.body[i].assignee_id = user1_id
          /\ last.body[i].team_id \in DOMAIN TEAMS

\* C4: get_task answers 404 when task_id is not in TASKS, 403 when the task
\* exists and is not in _visible_tasks_for(caller), and the task otherwise; no
\* map is modified in any of the three cases.
C4_GetTask ==
    [][last'.op = "get_task" /\ last'.caller # None =>
          LET task_id == last'.arg
              caller == USERS[last'.caller]
              exists == task_id \in DOMAIN TASKS
              visible == exists /\ task_id \in IdsOf(_visible_tasks_for(caller))
          IN  /\ last'.code = (IF ~exists THEN 404 ELSE IF ~visible THEN 403 ELSE 200)
              /\ last'.code = 200 => last'.body = TASKS[task_id]
              /\ UNCHANGED <<maps, uuid>>]_vars

\* a user asks for an existing task that is not visible to them: 403
C4_Witness ==
    /\ last.op = "get_task" /\ last.code = 403
    /\ last.arg \in DOMAIN TASKS
    /\ USERS[last.caller].role = "user"

(***************************************************************************)
(* Properties of the access guard (checked under SpecGuard).               *)
(***************************************************************************)
TaskWrites == {"replace_task", "update_task", "delete_task", "set_status",
               "set_progress", "set_assignee"}

BulkTaskWrites == {"bulk_set_status", "bulk_delete"}

\* the tasks of TASKS the request answered in r was aimed at
TargetsOf(r) ==
    IF r.op \in {"delete_task"} THEN {r.arg} \cap DOMAIN TASKS
    ELSE IF r.op \in TaskWrites THEN {r.arg.task_id} \cap DOMAIN TASKS
    ELSE IF r.op = "bulk_delete" THEN {t \in DOMAIN TASKS : InList(t, r.arg)}
    ELSE IF r.op = "bulk_set_status" THEN {t \in DOMAIN TASKS : InList(t, r.arg.task_ids)}
    ELSE {}

\* whether the caller of r has this role
CallerHasRole(r, role) == r.caller # None /\ USERS[r.caller].role = role

\* C5: every task-mutating operation (replace_task, update_task, delete_task,
\* set_status, set_progress, set_assignee, bulk_set_status, bulk_delete)
\* rejects a user-role caller who is not the task's creator as Forbidden and
\* leaves the task, and its presence in TASKS, unchanged.
C5_GuardOnEveryTaskWrite ==
    [][(last'.op \in TaskWrites \cup BulkTaskWrites /\ CallerHasRole(last', "user")) =>
          \A t \in TargetsOf(last') :
              TASKS[t].creator_id # last'.caller =>
                  /\ last'.code = 403
                  /\ t \in DOMAIN TASKS'
                  /\ TASKS'[t] = TASKS[t]]_vars

\* C6: delete_task by a user-role caller who is neither the creator nor the
\* assignee of the task is answered 403; the task stays in TASKS with every
\* field unchanged and no notification is added.
C6_DeleteForbidden ==
    [][(last'.op = "delete_task" /\ CallerHasRole(last', "user")) =>
          \A t \in TargetsOf(last') :
              (TASKS[t].creator_id # last'.caller /\ TASKS[t].assignee_id # last'.caller) =>
                  /\ last'.code = 403
                  /\ TASKS' = TASKS
                  /\ NOTIFICATIONS' = NOTIFICATIONS]_vars

\* a user who neither created the seed task nor is assigned to it was refused
\* its deletion
C6_Witness ==
    /\ last.op = "delete_task" /\ last.code = 403
    /\ CallerHasRole(last, "user")
    /\ last.arg \in DOMAIN TASKS
    /\ TASKS[last.arg].creator_id # last.caller
    /\ TASKS[last.arg].assignee_id # last.caller

\* whether the user manages the team of the task
ManagesTeamOf(uid, task) ==
    /\ task.team_id \in DOMAIN TEAMS
    /\ InList(uid, TEAMS[task.team_id].manager_ids)

\* C7: update_task, replace_task and delete_task by a manager-role caller who
\* is not the creator, not the assignee and not a manager of the task's team
\* succeed on any existing task and the write is applied, although the task
\* is not in that manager's visible set.
C7_ManagerMayWrite ==
    [][(last'.op \in {"update_task", "replace_task", "delete_task"}
        /\ CallerHasRole(last', "manager")) =>
          \A t \in TargetsOf(last') :
              (/\ TASKS[t].creator_id # last'.caller
               /\ TASKS[t].assignee_id # last'.caller
               /\ ~ManagesTeamOf(last'.caller, TASKS[t])) =>
                  /\ t \notin IdsOf(_visible_tasks_for(USERS[last'.caller]))
                  /\ IF last'.op = "delete_task"
                     THEN last'.code = 204 /\ t \notin DOMAIN TASKS'
                     ELSE /\ last'.code = 200
                          /\ t \in DOMAIN TASKS'
                          /\ \A f \in DOMAIN last'.arg.payload :
                                TASKS'[t][f] = last'.arg.payload[f]
                          /\ last'.body = TASKS'[t]]_vars

\* the manager updated a task of a team of which the manager is a member
\* only, created by the admin and assigned to someone else, which the manager
\* cannot see
C7_Witness ==
    /\ last.op = "update_task" /\ last.code = 200
    /\ CallerHasRole(last, "manager")
    /\ LET t == last.arg.task_id
       IN  /\ t \in DOMAIN TASKS
           /\ TASKS[t].status = "completed"
           /\ TASKS[t].creator_id # last.caller
           /\ TASKS[t].assignee_id # last.caller
           /\ TASKS[t].team_id \in DOMAIN TEAMS
           /\ InList(last.caller, TEAMS[TASKS[t].team_id].member_ids)
           /\ ~ManagesTeamOf(last.caller, TASKS[t])
           /\ t \notin IdsOf(_visible_tasks_for(USERS[last.caller]))

(***************************************************************************)
(* Properties of the notification dispatcher (checked under SpecNotif).    *)
(***************************************************************************)
\* the notifications a step added
Added == DOMAIN NOTIFICATIONS' \ DOMAIN NOTIFICATIONS

\* a step removed no notification and changed none
OldKept == \A n \in DOMAIN NOTIFICATIONS :
              n \in DOMAIN NOTIFICATIONS' /\ NOTIFICATIONS'[n] = NOTIFICATIONS[n]

\* C8: create_task with a non-null assignee_id B adds exactly one
\* notification: TASK_ASSIGNED, recipient_id B, task_id the new task, is_read
\* false; create_task with a null assignee adds none.
C8_CreateNotifies ==
    [][(last'.op = "create_task" /\ last'.code = 201) =>
          LET B == last'.arg.assignee_id
              task_id == last'.body.id
          IN  /\ task_id \in DOMAIN TASKS' \ DOMAIN TASKS
              /\ OldKept
              /\ IF B = None THEN Added = {}
                 ELSE /\ Cardinality(Added) = 1
                      /\ \A n \in Added :
                            /\ NOTIFICATIONS'[n].type = "TASK_ASSIGNED"
                            /\ NOTIFICATIONS'[n].recipient_id = B
                            /\ NOTIFICATIONS'[n].task_id = task_id
                            /\ NOTIFICATIONS'[n].is_read = FALSE]_vars

\* a task was created for user2 and the one notification there is tells
\* user2 so
C8_Witness ==
    /\ last.op = "create_task" /\ last.code = 201
    /\ last.arg.assignee_id = user2_id
    /\ Cardinality(DOMAIN NOTIFICATIONS) = 1
    /\ \A n \in DOMAIN NOTIFICATIONS :
          /\ NOTIFICATIONS[n].type = "TASK_ASSIGNED"
          /\ NOTIFICATIONS[n].recipient_id = user2_id
          /\ NOTIFICATIONS[n].task_id = last.body.id
          /\ ~NOTIFICATIONS[n].is_read

\* the type of notification the sweep owes a task on the day `now`
Owed(task, now) ==
    IF task.due_date = None THEN None
    ELSE IF task.due_date[1] < now THEN Some("TASK_OVERDUE")
    ELSE IF task.due_date[1] \in {now, now + 1} THEN Some("TASK_DUE_SOON")
    ELSE None

\* C9: one sweep adds, for each task of TASKS, exactly one TASK_OVERDUE
\* notification if due_date < today, exactly one TASK_DUE_SOON if due_date is
\* today or tomorrow, and none otherwise; the recipient is the task's
\* assignee_id (None when unassigned); the count returned is the number added.
C9_Sweep ==
    [][(last'.op = "simulate_notifications" /\ last'.code = 201) =>
          /\ OldKept
          /\ TASKS' = TASKS
          /\ last'.body.notifications_created = Cardinality(Added)
          /\ \A n \in Added : NOTIFICATIONS'[n].task_id \in DOMAIN TASKS
          /\ \A t \in DOMAIN TASKS :
                LET mine == {n \in Added : NOTIFICATIONS'[n].task_id = t}
                IN  IF Owed(TASKS[t], today) = None THEN mine = {}
                    ELSE /\ Cardinality(mine) = 1
                         /\ \A n \in mine :
                               /\ Some(NOTIFICATIONS'[n].type) = Owed(TASKS[t], today)
                               /\ NOTIFICATIONS'[n].recipient_id = TASKS[t].assignee_id
                               /\ NOTIFICATIONS'[n].is_read = FALSE]_vars

\* the sweep ran over a task due yesterday and a task due in three days: it
\* reported one notification, TASK_OVERDUE for the first task; the second
\* task has none but the one of its assignment
C9_Witness ==
    /\ last.op = "simulate_notifications" /\ last.code = 201
    /\ last.body.notifications_created = 1
    /\ \E t1, t2 \in DOMAIN TASKS :
          /\ TASKS[t1].due_date = Some(today - 1)
          /\ TASKS[t2].due_date = Some(today + 3)
          /\ \E n \in DOMAIN NOTIFICATIONS :
                /\ NOTIFICATIONS[n].type = "TASK_OVERDUE"
                /\ NOTIFICATIONS[n].task_id = t1
                /\ NOTIFICATIONS[n].recipient_id = None
          /\ \A n \in DOMAIN NOTIFICATIONS :
                NOTIFICATIONS[n].task_id = t2 => NOTIFICATIONS[n].type = "TASK_ASSIGNED"

\* the notifications list_notifications owes a caller
Listed(uid) ==
    {n \in DOMAIN NOTIFICATIONS :
        \/ USERS[uid].role = "admin"
        \/ NOTIFICATIONS[n].recipient_id = None
        \/ NOTIFICATIONS[n].recipient_id = uid}

MayTouch(r, n) ==
    \/ CallerHasRole(r, "admin")
    \/ n.recipient_id = None
    \/ n.recipient_id = r.caller

\* C11: a notification is created with is_read false; once is_read is true
\* it stays true for as long as the notification exists, whatever operation
\* runs; mark_notification_read on an already-read notification answers 200
\* and leaves it read.
C11_ReadMonotone ==
    [][/\ \A n \in Added : NOTIFICATIONS'[n].is_read = FALSE
       /\ \A n \in DOMAIN NOTIFICATIONS \cap DOMAIN NOTIFICATIONS' :
             NOTIFICATIONS[n].is_read => NOTIFICATIONS'[n].is_read
       /\ (/\ last'.op = "mark_notification_read"
           /\ last'.caller # None
           /\ last'.arg \in DOMAIN NOTIFICATIONS
           /\ NOTIFICATIONS[last'.arg].is_read
           /\ MayTouch(last', NOTIFICATIONS[last'.arg])) =>
             /\ last'.code = 200
             /\ last'.body.is_read
             /\ NOTIFICATIONS' = NOTIFICATIONS]_vars

\* user2 marked the notification of their assignment read while a broadcast
\* created before it, already read, is still read and a later one is unread
C11_Witness ==
    /\ last.op = "mark_notification_read" /\ last.code = 200
    /\ last.caller = user2_id
    /\ NOTIFICATIONS[last.arg].recipient_id = user2_id
    /\ NOTIFICATIONS[last.arg].is_read
    /\ \E a, b \in DOMAIN NOTIFICATIONS :
          /\ a[2] < last.arg[2] /\ NOTIFICATIONS[a].is_read
          /\ b[2] > last.arg[2] /\ ~NOTIFICATIONS[b].is_read

(***************************************************************************)
(* Properties of the task writes (checked under SpecWrite).                *)
(***************************************************************************)
\* the progress values the request answered in r carried
ProgressIn(r) ==
    IF r.op \in {"create_task", "set_progress"} THEN {r.arg.progress}
    ELSE IF r.op = "replace_task" THEN {r.arg.payload.progress}
    ELSE IF r.op = "update_task"
    THEN {r.arg.payload[f] : f \in DOMAIN r.arg.payload \cap {"progress"}}
    ELSE {}

\* C12: every task of TASKS has 0 <= progress <= 100 in every reachable
\* state; create_task, replace_task, update_task and set_progress carrying
\* progress 101 or -1 are answered with a validation error (422) and leave
\* TASKS unchanged.
C12_ProgressInRange ==
    /\ [](\A t \in DOMAIN TASKS : TASKS[t].progress >= 0 /\ TASKS[t].progress <= 100)
    /\ [][(last'.caller # None /\ ProgressIn(last') \cap {101, 0 - 1} # {}) =>
             /\ last'.code = 422
             /\ TASKS' = TASKS]_vars

\* set_progress with 101 was refused on an existing task whose progress is
\* at the upper limit after an accepted write
C12_Witness ==
    /\ last.op = "set_progress" /\ last.code = 422
    /\ last.arg.progress = 101
    /\ last.arg.task_id \in DOMAIN TASKS
    /\ TASKS[last.arg.task_id].progress = 100
    /\ TASKS[last.arg.task_id].updated_at = clock

(***************************************************************************)
(* Properties of what the writes emit (checked under SpecEmit).            *)
(***************************************************************************)
\* C13: each successful replace_task, update_task or set_status on an
\* existing task adds exactly one notification: TASK_UPDATED, recipient_id
\* None, task_id the updated task; also when the write changes the assignee
\* (no TASK_ASSIGNED from replace_task or update_task).
C13_WriteBroadcasts ==
    [][(last'.op \in {"replace_task", "update_task", "set_status"} /\ last'.code = 200) =>
          /\ last'.arg.task_id \in DOMAIN TASKS
          /\ OldKept
          /\ Cardinality(Added) = 1
          /\ \A n \in Added :
                /\ NOTIFICATIONS'[n].type = "TASK_UPDATED"
                /\ NOTIFICATIONS'[n].recipient_id = None
                /\ NOTIFICATIONS'[n].task_id = last'.arg.task_id]_vars

\* update_task gave the seed task to user1, and the only notification there
\* is is the broadcast TASK_UPDATED
C13_Witness ==
    /\ last.op = "update_task" /\ last.code = 200
    /\ "assignee_id" \in DOMAIN last.arg.payload
    /\ TASKS[last.arg.task_id].assignee_id = user1_id
    /\ Cardinality(DOMAIN NOTIFICATIONS) = 1
    /\ \A n \in DOMAIN NOTIFICATIONS :
          /\ NOTIFICATIONS[n].type = "TASK_UPDATED"
          /\ NOTIFICATIONS[n].recipient_id = None
          /\ NOTIFICATIONS[n].task_id = last.arg.task_id

\* C14: set_assignee on an existing task with a non-null assignee adds
\* exactly one notification, TASK_ASSIGNED to the new assignee; with a null
\* assignee it clears the task's assignee and adds none.
C14_SetAssignee ==
    [][(last'.op = "set_assignee" /\ last'.code = 200) =>
          LET t == last'.arg.task_id
              B == last'.arg.assignee_id
          IN  /\ t \in DOMAIN TASKS /\ t \in DOMAIN TASKS'
              /\ TASKS'[t].assignee_id = B
              /\ OldKept
              /\ IF B = None THEN Added = {}
                 ELSE /\ Cardinality(Added) = 1
                      /\ \A n \in Added :
                            /\ NOTIFICATIONS'[n].type = "TASK_ASSIGNED"
                            /\ NOTIFICATIONS'[n].recipient_id = B
                            /\ NOTIFICATIONS'[n].task_id = t]_vars

\* the seed task, once assigned (its notification is there), has just been
\* cleared of its assignee, and no notification came of that
C14_Witness ==
    /\ last.op = "set_assignee" /\ last.code = 200
    /\ last.arg.assignee_id = None
    /\ TASKS[last.arg.task_id].assignee_id = None
    /\ Cardinality(DOMAIN NOTIFICATIONS) = 1
    /\ \A n \in DOMAIN NOTIFICATIONS :
          /\ NOTIFICATIONS[n].type = "TASK_ASSIGNED"
          /\ NOTIFICATIONS[n].recipient_id = user2_id

(***************************************************************************)
(* Properties of the role guard and of the users (checked under SpecUsers). *)
(***************************************************************************)
\* the operations that depend on _require_role(Role.admin)
AdminOps == {"create_user", "update_user", "delete_user",
             "create_team", "update_team", "delete_team"}

\* the operations that depend on _require_role(Role.manager)
ManagerOps == {"add_member", "remove_member"}

\* C15: _require_role(required) lets a caller pass iff the caller's role is
\* the required one or admin: create_user, update_user, delete_user,
\* create_team, update_team and delete_team answer 403 to every manager-role
\* and user-role caller and leave USERS and TEAMS unchanged, and never 403 to
\* an admin; add_member and remove_member answer 403 to user-role callers
\* only, never to a manager or an admin.
C15_RoleGuard ==
    [][/\ (last'.op \in AdminOps /\ last'.caller # None) =>
             IF CallerHasRole(last', "admin") THEN last'.code # 403
             ELSE /\ last'.code = 403
                  /\ USERS' = USERS
                  /\ TEAMS' = TEAMS
       /\ (last'.op \in ManagerOps /\ last'.caller # None) =>
             IF CallerHasRole(last', "user")
             THEN last'.code = 403 /\ TEAMS' = TEAMS
             ELSE last'.code # 403]_vars

\* a user who registered as a manager and logged in was refused the deletion
\* of an existing user, after having added a member to a team
C15_Witness ==
    /\ last.op = "delete_user" /\ last.code = 403
    /\ last.caller = NewUser
    /\ CallerHasRole(last, "manager")
    /\ last.arg \in DOMAIN USERS
    /\ \E t \in DOMAIN TEAMS : InList(user2_id, TEAMS[t].member_ids)

\* C18 as stated: a user record is never removed from USERS and its role
\* never changes, whatever operation runs.
C18_UsersNeverChange ==
    [][\A u \in DOMAIN USERS :
          /\ u \in DOMAIN USERS'
          /\ USERS'[u].role = USERS[u].role]_vars

\* C18 as amended: a user record is removed only by a successful delete_user
\* on that user and its role changes only by a successful update_user on
\* that user, both called by an admin; no operation of a manager-role or
\* user-role caller, and no unauthenticated one, does either.
C18_UsersChangedByAdminsOnly ==
    [][\A u \in DOMAIN USERS :
          /\ u \notin DOMAIN USERS' =>
                /\ last'.op = "delete_user" /\ last'.code = 204
                /\ last'.arg = u
                /\ CallerHasRole(last', "admin")
          /\ (u \in DOMAIN USERS' /\ USERS'[u].role # USERS[u].role) =>
                /\ last'.op = "update_user" /\ last'.code = 200
                /\ last'.arg.user_id = u
                /\ CallerHasRole(last', "admin")]_vars

\* an admin deleted user2 after user1 had been made a manager
C18_Witness ==
    /\ last.op = "delete_user" /\ last.code = 204
    /\ last.arg = user2_id
    /\ user2_id \notin DOMAIN USERS
    /\ CallerHasRole(last, "admin")
    /\ USERS[user1_id].role = "manager"

(***************************************************************************)
(* Properties of the timestamps and of the creator (checked under          *)
(* SpecTime).                                                              *)
(***************************************************************************)
\* C16: create_task sets creator_id to the caller (and created_at to the
\* time of the call); no replace_task, update_task, set_status, set_progress,
\* set_assignee or bulk_set_status, by any caller, changes the creator_id or
\* the created_at of a task.
C16_CreatorImmutable ==
    [][/\ \A t \in DOMAIN TASKS \cap DOMAIN TASKS' :
             /\ TASKS'[t].creator_id = TASKS[t].creator_id
             /\ TASKS'[t].created_at = TASKS[t].created_at
       /\ (last'.op = "create_task" /\ last'.code = 201) =>
             /\ DOMAIN TASKS' \ DOMAIN TASKS = {last'.body.id}
             /\ TASKS'[last'.body.id].creator_id = last'.caller
             /\ TASKS'[last'.body.id].created_at = clock]_vars

\* the manager replaced a task user1 had created earlier: the task is still
\* user1's, created when it was, updated now
C16_Witness ==
    /\ last.op = "replace_task" /\ last.code = 200
    /\ last.caller = manager_id
    /\ LET t == TASKS[last.arg.task_id]
       IN  /\ t.creator_id = user1_id
           /\ t.created_at < t.updated_at
           /\ t.updated_at = clock
           /\ t.progress = 100

\* the operations that write one existing task and keep it
SingleTaskUpdates == {"replace_task", "update_task", "set_status",
                      "set_progress", "set_assignee"}

\* C17: updated_at >= created_at for every task in every reachable state,
\* and every successful replace_task, update_task, set_status, set_progress,
\* set_assignee and bulk_set_status changes the updated_at of the task(s) it
\* writes to the current value of the clock, the clock advancing strictly.
C17_UpdatedAt ==
    /\ [](\A t \in DOMAIN TASKS : TASKS[t].updated_at >= TASKS[t].created_at)
    /\ [][(last'.op \in SingleTaskUpdates \cup {"bulk_set_status"} /\ last'.code = 200) =>
             \A t \in TargetsOf(last') :
                 /\ t \in DOMAIN TASKS'
                 /\ TASKS'[t].updated_at = clock
                 /\ TASKS'[t].updated_at # TASKS[t].updated_at]_vars

\* bulk_set_status wrote two tasks, the seed task and one created and given
\* a progress earlier: both carry the time of this call, later than their
\* creation
C17_Witness ==
    /\ last.op = "bulk_set_status" /\ last.code = 200
    /\ Len(last.body) = 2
    /\ \A t \in DOMAIN TASKS :
          /\ TASKS[t].updated_at = clock
          /\ TASKS[t].created_at < clock
          /\ TASKS[t].status = "blocked"
    /\ \E t \in DOMAIN TASKS : TASKS[t].created_at > 0

(***************************************************************************)
(* Properties of concurrent requests (checked under SpecConc).             *)
(***************************************************************************)
\* C19: when set_status and set_progress on the same task run concurrently,
\* their reads and writes interleaved, no write is lost: once both have
\* answered 200 the task has the new status and the new progress.
C19_NoLostWrite ==
    \A a, b \in Threads :
        (/\ inflight[a].pc = "answered" /\ inflight[a].code = 200
         /\ inflight[a].op = "set_status"
         /\ inflight[b].pc = "answered" /\ inflight[b].code = 200
         /\ inflight[b].op = "set_progress"
         /\ inflight[a].arg.task_id = inflight[b].arg.task_id) =>
            /\ TASKS[inflight[a].arg.task_id].status = inflight[a].arg.status
            /\ TASKS[inflight[a].arg.task_id].progress = inflight[b].arg.progress

(***************************************************************************)
(* Properties of the set of notifications (checked under SpecFrame).       *)
(***************************************************************************)
\* the notifications a step removed
Removed == DOMAIN NOTIFICATIONS \ DOMAIN NOTIFICATIONS'

\* the operations that call _notify
Dispatching ==
    {"create_task", "replace_task", "update_task", "set_status", "set_assignee",
     "simulate_notifications"}

\* C20: notifications are added to NOTIFICATIONS only by _notify, reached
\* from create_task, replace_task, update_task, set_status, set_assignee and
\* the sweep, each one unread, under a fresh identifier and stamped with the
\* time of the call; they are removed only by delete_notification, answered
\* 204 to an admin, the recipient, or anyone for a broadcast, or by
\* mark_all_notifications_read; every other operation leaves the set of
\* notification identifiers unchanged.
C20_NotificationFrame ==
    [][/\ Added # {} =>
             /\ last'.op \in Dispatching
             /\ last'.code \in {200, 201}
             /\ \A n \in Added :
                   /\ NOTIFICATIONS'[n].id = n
                   /\ n[2] > uuid.notif
                   /\ NOTIFICATIONS'[n].is_read = FALSE
                   /\ NOTIFICATIONS'[n].created_at = clock
       /\ Removed # {} =>
             \/ last'.op = "mark_all_notifications_read"
             \/ /\ last'.op = "delete_notification"
                /\ last'.code = 204
                /\ Removed = {last'.arg}
                /\ MayTouch(last', NOTIFICATIONS[last'.arg])
       /\ last'.op \notin Dispatching \cup {"delete_notification",
                                            "mark_all_notifications_read"} =>
             DOMAIN NOTIFICATIONS' = DOMAIN NOTIFICATIONS
       /\ last'.code \notin {200, 201, 204} =>
             DOMAIN NOTIFICATIONS' = DOMAIN NOTIFICATIONS]_vars

\* user2 deleted the notification of their assignment and was answered 204:
\* it is gone while a later broadcast, a comment and a reminder remain
C20_Witness ==
    /\ last.op = "delete_notification" /\ last.code = 204
    /\ last.caller = user2_id
    /\ last.arg \notin DOMAIN NOTIFICATIONS
    /\ \E n \in DOMAIN NOTIFICATIONS :
          NOTIFICATIONS[n].recipient_id = None /\ n[2] > last.arg[2]
    /\ DOMAIN COMMENTS # {}
    /\ DOMAIN REMINDERS # {}

(***************************************************************************)
(* Properties of repeated sweeps (checked under SpecNotif).                *)
(***************************************************************************)
\* the notifications of N of the type ntype about the task, for its assignee
Alike(N, task, ntype) ==
    {n \in DOMAIN N : /\ N[n].type = ntype
                      /\ N[n].task_id = task.id
                      /\ N[n].recipient_id = task.assignee_id}

\* C21: the sweep does not deduplicate: each simulate_notifications adds,
\* for every qualifying task, one more notification of the type owed
\* (TASK_OVERDUE or TASK_DUE_SOON) with the task's id and assignee, however
\* many such notifications there already are, under an identifier no
\* notification has and with is_read false; so k sweeps add k of them.
C21_SweepRepeats ==
    [][(last'.op = "simulate_notifications" /\ last'.code = 201) =>
          \A t \in DOMAIN TASKS :
             Owed(TASKS[t], today) # None =>
                LET before == Alike(NOTIFICATIONS, TASKS[t], Owed(TASKS[t], today)[1])
                    after == Alike(NOTIFICATIONS', TASKS[t], Owed(TASKS[t], today)[1])
                IN  /\ before \subseteq after
                    /\ Cardinality(after) = Cardinality(before) + 1
                    /\ \A n \in after \ before :
                          /\ n \notin DOMAIN NOTIFICATIONS
                          /\ NOTIFICATIONS'[n].id = n
                          /\ NOTIFICATIONS'[n].is_read = FALSE]_vars

\* the third sweep of the same day over the seed task alone: it reported one
\* notification, and the task has three TASK_DUE_SOON notifications, alike
\* but for their identifiers, all unread
C21_Witness ==
    /\ last.op = "simulate_notifications" /\ last.code = 201
    /\ last.body.notifications_created = 1
    /\ DOMAIN TASKS = {seed_task_id}
    /\ Cardinality(Alike(NOTIFICATIONS, SeedTask, "TASK_DUE_SOON")) = 3
    /\ \A n \in DOMAIN NOTIFICATIONS : ~NOTIFICATIONS[n].is_read

(***************************************************************************)
(* Properties of child records (checked under SpecChild).                  *)
(***************************************************************************)
\* the operations that create a comment, an attachment or a reminder
ChildCreates == {"create_comment", "add_attachment", "create_reminder"}

\* C22: deleting a task, by delete_task or bulk_delete, does not cascade:
\* COMMENTS, ATTACHMENTS and REMINDERS are unchanged, the records of the
\* deleted task included; and a child record is created only under a task
\* that is in TASKS at that moment, the request being answered 404 and
\* storing nothing otherwise.
C22_NoCascade ==
    [][/\ (last'.op \in {"delete_task", "bulk_delete"} /\ last'.code = 204) =>
             /\ COMMENTS' = COMMENTS
             /\ ATTACHMENTS' = ATTACHMENTS
             /\ REMINDERS' = REMINDERS
       /\ (last'.op = "delete_task" /\ last'.code = 204) =>
             /\ last'.arg \in DOMAIN TASKS
             /\ DOMAIN TASKS' = DOMAIN TASKS \ {last'.arg}
       /\ (last'.op \in ChildCreates /\ last'.caller # None) =>
             IF last'.arg.task_id \in DOMAIN TASKS
             THEN /\ last'.code = 201
                  /\ last'.body.task_id = last'.arg.task_id
                  /\ \/ last'.body.id \in DOMAIN COMMENTS' \ DOMAIN COMMENTS
                     \/ last'.body.id \in DOMAIN ATTACHMENTS' \ DOMAIN ATTACHMENTS
                     \/ last'.body.id \in DOMAIN REMINDERS' \ DOMAIN REMINDERS
             ELSE /\ last'.code = 404
                  /\ COMMENTS' = COMMENTS
                  /\ ATTACHMENTS' = ATTACHMENTS
                  /\ REMINDERS' = REMINDERS]_vars

\* a comment, an attachment and a reminder of the seed task outlive it: the
\* task is gone, the three records are stored, and a new reminder for it was
\* answered 404
C22_Witness ==
    /\ last.op = "create_reminder" /\ last.code = 404
    /\ last.arg.task_id = seed_task_id
    /\ seed_task_id \notin DOMAIN TASKS
    /\ \E c \in DOMAIN COMMENTS : COMMENTS[c].task_id = seed_task_id
    /\ \E a \in DOMAIN ATTACHMENTS : ATTACHMENTS[a].task_id = seed_task_id
    /\ \E r \in DOMAIN REMINDERS : REMINDERS[r].task_id = seed_task_id

(***************************************************************************)
(* Properties of the 404 and 403 answers (checked under SpecFound).        *)
(***************************************************************************)
\* the operations that answer both 404 and 403
Guarded ==
    {"replace_task", "update_task", "delete_task", "mark_notification_read",
     "delete_notification", "delete_comment"}

\* whether the object the request r names is in its map
Present(r) ==
    IF r.op \in {"replace_task", "update_task"} THEN r.arg.task_id \in DOMAIN TASKS
    ELSE IF r.op = "delete_task" THEN r.arg \in DOMAIN TASKS
    ELSE IF r.op \in {"mark_notification_read", "delete_notification"}
    THEN r.arg \in DOMAIN NOTIFICATIONS
    ELSE r.arg.comment_id \in DOMAIN COMMENTS

\* whether r names a child record of the map M stored under another task
\* than the one r names
Misfiled(r, M, child_id) == child_id \in DOMAIN M /\ M[child_id].task_id # r.arg.task_id

\* C23: for replace_task, update_task, delete_task, mark_notification_read,
\* delete_notification and delete_comment, an authenticated request with a
\* well-formed body that names an identifier absent from the map is answered
\* 404 whatever the caller's role, and 403 is answered only when the object
\* exists; delete_comment, delete_attachment and delete_reminder naming a
\* child record that exists under another task than the given one are
\* answered 404 and leave the record in place.
C23_NotFoundFirst ==
    [][/\ (last'.op \in Guarded /\ last'.caller # None /\ last'.code # 422) =>
             /\ ~Present(last') => last'.code = 404
             /\ last'.code = 403 => Present(last')
       /\ (last'.op = "delete_comment" /\ last'.caller # None
              /\ Misfiled(last', COMMENTS, last'.arg.comment_id)) =>
             last'.code = 404 /\ COMMENTS' = COMMENTS
       /\ (last'.op = "delete_attachment" /\ last'.caller # None
              /\ Misfiled(last', ATTACHMENTS, last'.arg.attachment_id)) =>
             last'.code = 404 /\ ATTACHMENTS' = ATTACHMENTS
       /\ (last'.op = "delete_reminder" /\ last'.caller # None
              /\ Misfiled(last', REMINDERS, last'.arg.reminder_id)) =>
             last'.code = 404 /\ REMINDERS' = REMINDERS]_vars

\* user2, a user who did not write it, asked to delete the comment of the
\* seed task under another task, one that exists: the answer is 404, not 403,
\* and the comment is in place
C23_Witness ==
    /\ last.op = "delete_comment" /\ last.code = 404
    /\ last.caller = user2_id
    /\ last.arg.task_id \in DOMAIN TASKS
    /\ last.arg.comment_id \in DOMAIN COMMENTS
    /\ COMMENTS[last.arg.comment_id].task_id = seed_task_id
    /\ COMMENTS[last.arg.comment_id].author_id = user1_id
    /\ last.arg.task_id # seed_task_id

(***************************************************************************)
(* Properties of what a listing discloses (checked under SpecLeak).        *)
(***************************************************************************)
\* whether the task of the notification n is outside what the user may see
Hidden(uid, n) ==
    NOTIFICATIONS[n].task_id \notin IdsOf(_visible_tasks_for(USERS[uid]))

C25_RejectedChangesNothing ==
    [][last'.code \in {401, 403, 404} =>
          /\ USERS' = USERS
          /\ TOKENS' = TOKENS
          /\ TEAMS' = TEAMS
          /\ TASKS' = TASKS
          /\ NOTIFICATIONS' = NOTIFICATIONS
          /\ COMMENTS' = COMMENTS
          /\ ATTACHMENTS' = ATTACHMENTS
          /\ REMINDERS' = REMINDERS]_vars

\* user2 was refused the update of the task user1 created and assigned to
\* them: the task is as it was created and the one notification there is
\* is that of the assignment
C25_Witness ==
    /\ last.op = "update_task" /\ last.code = 403
    /\ last.caller = user2_id
    /\ last.arg.task_id \in DOMAIN TASKS
    /\ TASKS[last.arg.task_id].creator_id = user1_id
    /\ TASKS[last.arg.task_id].updated_at = TASKS[last.arg.task_id].created_at
    /\ Cardinality(DOMAIN NOTIFICATIONS) = 1
    /\ \A n \in DOMAIN NOTIFICATIONS : NOTIFICATIONS[n].type = "TASK_ASSIGNED"
    /\ uuid.notif = 1

(***************************************************************************)
(* Properties of marking for others (checked under SpecMark).              *)
(***************************************************************************)
\* C26: mark_all_notifications_read by a caller who is not an admin sets
\* is_read on exactly the notifications whose recipient_id is null or the
\* caller and leaves those addressed to another user unchanged; by an admin
\* it sets is_read on all; either way no notification is removed and no
\* other field changes.  mark_notification_read and delete_notification by
\* a caller who is not an admin, on a notification addressed to another
\* user, are answered 403 and change nothing.
C26_MarkAllScoped ==
    [][/\ (last'.op = "mark_all_notifications_read" /\ last'.code = 204) =>
             /\ DOMAIN NOTIFICATIONS' = DOMAIN NOTIFICATIONS
             /\ \A n \in DOMAIN NOTIFICATIONS :
                   NOTIFICATIONS'[n] =
                       IF MayTouch(last', NOTIFICATIONS[n])
                       THEN [NOTIFICATIONS[n] EXCEPT !.is_read = TRUE]
                       ELSE NOTIFICATIONS[n]
       /\ (/\ last'.op \in {"mark_notification_read", "delete_notification"}
           /\ last'.caller # None
           /\ last'.arg \in DOMAIN NOTIFICATIONS
           /\ ~MayTouch(last', NOTIFICATIONS[last'.arg])) =>
             last'.code = 403 /\ NOTIFICATIONS' = NOTIFICATIONS]_vars

\* user1 marked all as read: the broadcast and the notification addressed
\* to user1 are read, the one addressed to user2 is still unread, and all
\* three are there
C26_Witness ==
    /\ last.op = "mark_all_notifications_read" /\ last.code = 204
    /\ last.caller = user1_id
    /\ Cardinality(DOMAIN NOTIFICATIONS) = 3
    /\ \E a, b, c \in DOMAIN NOTIFICATIONS :
          /\ NOTIFICATIONS[a].recipient_id = None /\ NOTIFICATIONS[a].is_read
          /\ NOTIFICATIONS[b].recipient_id = user1_id /\ NOTIFICATIONS[b].is_read
          /\ NOTIFICATIONS[c].recipient_id = user2_id /\ ~NOTIFICATIONS[c].is_read

====
